---------------------------- MODULE Spec2Model ----------------------------
(***************************************************************************)
(* Selective re-identification tracker (app/service/selective_tracker.py), *)
(* the frame functions of app/service/video_cropper.py, the frame loop of  *)
(* app/service/named_video_cropper.py and the pipeline of                  *)
(* app/service/track_player.py.  Each has a specification of its own:      *)
(* Spec and SpecSwap, SpecCrop, SpecNamed, SpecPipeline.                   *)
(*                                                                         *)
(* Numbers.  Pixel coordinates are floats in the program; here they are    *)
(* integers counting 1/CoordDen of a pixel, so int() is a real truncation. *)
(* IOUs are fractions <<num, den>>.  Histogram components, correlations    *)
(* and scores are binary floating-point numbers, rounded as the program    *)
(* rounds them (float32 and double).                                       *)
(***************************************************************************)
EXTENDS Integers, Sequences, FiniteSets, TLC

\* ------------------------------------------------------------------ bounds
MaxFrames == 3
\* The ID-swap scenario: frames with consistent track ids, then frames with
\* the two track ids exchanged.
ConsistentFrames == 10
SwapFrames == 5
CoordDen == 2

\* --------------------------------------------------------------- constants
None == -1
base_speed == 5
bootstrap_iou_threshold == <<3, 10>>
padding == <<12, 10>>

\* ----------------------------------------------------------------- helpers
Min(a, b) == IF a < b THEN a ELSE b
Max(a, b) == IF a > b THEN a ELSE b
Abs(a) == IF a < 0 THEN 0 - a ELSE a

\* int(x) of a float held in 1/CoordDen pixels: the fraction is cut towards
\* zero.
IntTrunc(c) ==
    IF c >= 0 THEN (c \div CoordDen) * CoordDen
    ELSE 0 - (((0 - c) \div CoordDen) * CoordDen)

\* A whole-pixel coordinate.
Px(n) == n * CoordDen

Box(a, b, c, d) == [x1 |-> a, y1 |-> b, x2 |-> c, y2 |-> d]

\* bbox_dict / det_bbox built with int() from a detection's float list.
IntBox(b) == Box(IntTrunc(b.x1), IntTrunc(b.y1), IntTrunc(b.x2), IntTrunc(b.y2))

\* --------------------------------------------------------------- geometry
\* Variant of calculate_iou that divides by the sum of the two areas.
calculate_iou_by_area_sum(box1, box2) ==
    LET x1 == Max(box1.x1, box2.x1)
        y1 == Max(box1.y1, box2.y1)
        x2 == Min(box1.x2, box2.x2)
        y2 == Min(box1.y2, box2.y2)
        intersection == Max(0, x2 - x1) * Max(0, y2 - y1)
        area1 == (box1.x2 - box1.x1) * (box1.y2 - box1.y1)
        area2 == (box2.x2 - box2.x1) * (box2.y2 - box2.y1)
        union == area1 + area2
    IN IF union > 0 THEN <<intersection, union>> ELSE <<0, 1>>

\* calculate_iou: the pair <<intersection, union>>; the program's float is
\* intersection / union, and 0.0 when the union is not positive.
calculate_iou(box1, box2) ==
    LET x1 == Max(box1.x1, box2.x1)
        y1 == Max(box1.y1, box2.y1)
        x2 == Min(box1.x2, box2.x2)
        y2 == Min(box1.y2, box2.y2)
        intersection == Max(0, x2 - x1) * Max(0, y2 - y1)
        area1 == (box1.x2 - box1.x1) * (box1.y2 - box1.y1)
        area2 == (box2.x2 - box2.x1) * (box2.y2 - box2.y1)
        union == area1 + area2 - intersection
    IN IF union > 0 THEN <<intersection, union>> ELSE <<0, 1>>

\* Comparisons of two non-negative fractions <<num, den>> with den > 0.
FracGt(p, q) == p[1] * q[2] > q[1] * p[2]
FracGe(p, q) == p[1] * q[2] >= q[1] * p[2]

\* match_bbox_to_detections: the loop over detections i..Len, carrying
\* (best_iou, best_idx); returns best_idx (None when nothing qualifies).
RECURSIVE MatchFrom(_, _, _, _, _, _)
MatchFrom(target_bbox, dets, iou_threshold, i, best_iou, best_idx) ==
    IF i > Len(dets) THEN best_idx
    ELSE LET iou == calculate_iou(target_bbox, dets[i].bbox)
         IN IF FracGt(iou, best_iou) /\ FracGe(iou, iou_threshold)
            THEN MatchFrom(target_bbox, dets, iou_threshold, i + 1, iou, i)
            ELSE MatchFrom(target_bbox, dets, iou_threshold, i + 1,
                           best_iou, best_idx)

match_bbox_to_detections(target_bbox, dets, iou_threshold) ==
    MatchFrom(target_bbox, dets, iou_threshold, 1, <<0, 1>>, None)

\* ------------------------------------------------------- floating point
\* The program's numbers are binary floating point: Python floats have
\* DoubleBits significant bits, numpy.float32 components SingleBits.  A
\* number is held as s * m * 2^e with s its sign (1, 0, -1), m a natural
\* number and e an integer; every operation rounds its exact result to the
\* nearest number of p significant bits, a tie to the even one.  The
\* exponent range is not modelled: no number here is near its ends.  FNaN
\* is the float that is not a number (nan).
DoubleBits == 53
SingleBits == 24

\* Natural numbers of any size: limbs to base LimbBase, the lowest first,
\* without leading zeros (0 is the empty sequence).
LimbBits == 2 * 7
LimbBase == 2 ^ LimbBits
Pow2 == [k \in 0..LimbBits |-> 2 ^ k]

\* The value of the one element of a set: an operator that reads an argument
\* several times takes it through Val, which evaluates it once.
Val(S) == CHOOSE v \in S : TRUE

Limb(a, i) == IF i >= 1 /\ i <= Len(a) THEN a[i] ELSE 0

RECURSIVE NTrim(_)
NTrim(a) ==
    Val({ IF Len(u) = 0 \/ u[Len(u)] # 0 THEN u
          ELSE NTrim(SubSeq(u, 1, Len(u) - 1)) :
          u \in {a \o << >>} })

\* Carries (and borrows) moved one limb up, until every limb is in
\* 0..LimbBase-1; the number is not negative.
RECURSIVE NCarry(_)
NCarry(a) ==
    Val({ IF \A i \in 1..Len(u) : u[i] >= 0 /\ u[i] < LimbBase THEN NTrim(u)
          ELSE NCarry([i \in 1..(Len(u) + 1) |->
                          (Limb(u, i) % LimbBase) + (Limb(u, i - 1) \div LimbBase)]) :
          u \in {a \o << >>} })

NOf(n) == NCarry(<<n>>)

NAdd(a, b) ==
    Val({ NCarry([i \in 1..Max(Len(u), Len(v)) |-> Limb(u, i) + Limb(v, i)]) :
          u \in {a}, v \in {b} })

\* a - b for a >= b.
NSub(a, b) ==
    Val({ NCarry([i \in 1..Len(u) |-> u[i] - Limb(v, i)]) : u \in {a}, v \in {b} })

\* 1, 0 or -1 as a > b, a = b or a < b, for a and b of one length that are
\* equal above limb i.
RECURSIVE NCmpFrom(_, _, _)
NCmpFrom(a, b, i) ==
    IF i = 0 THEN 0
    ELSE IF a[i] # b[i] THEN (IF a[i] > b[i] THEN 1 ELSE -1)
    ELSE NCmpFrom(a, b, i - 1)

\* 1, 0 or -1 as a > b, a = b or a < b.
NCmp(a, b) ==
    IF Len(a) # Len(b) THEN (IF Len(a) > Len(b) THEN 1 ELSE -1)
    ELSE NCmpFrom(a, b, Len(a))

\* The sum of a[i] * b[t - i + 1] over i in lo..hi.
RECURSIVE NColumn(_, _, _, _, _)
NColumn(a, b, t, lo, hi) ==
    IF lo > hi THEN 0
    ELSE IF lo = hi THEN a[lo] * b[t - lo + 1]
    ELSE NColumn(a, b, t, lo, (lo + hi) \div 2)
             + NColumn(a, b, t, (lo + hi) \div 2 + 1, hi)

NMul(a, b) ==
    Val({ IF Len(u) = 0 \/ Len(v) = 0 THEN << >>
          ELSE NCarry([t \in 1..(Len(u) + Len(v) - 1) |->
                          NColumn(u, v, t, Max(1, t - Len(v) + 1), Min(Len(u), t))]) :
          u \in {a}, v \in {b} })

\* a * d for a limb d.
NMulSmall(a, d) ==
    Val({ NCarry([i \in 1..Len(u) |-> u[i] * v]) : u \in {a}, v \in {d} })

\* The number of bits of every limb, of a limb, and of a.
BitLens ==
    [d \in 0..(LimbBase - 1) |->
        CHOOSE k \in 0..LimbBits :
            (k = 0 \/ Pow2[k - 1] <= d) /\ (k = LimbBits \/ d < Pow2[k])]

BitLenInt(d) == BitLens[d]

NBitLen(a) ==
    IF Len(a) = 0 THEN 0 ELSE (Len(a) - 1) * LimbBits + BitLenInt(a[Len(a)])

\* a * 2^k
NShl(a, k) ==
    IF k = 0 THEN a
    ELSE
    Val({ NTrim([i \in 1..(Len(u) + q + 1) |->
                   IF i <= q THEN 0
                   ELSE ((Limb(u, i - q) * r) % LimbBase)
                            + ((Limb(u, i - q - 1) * r) \div LimbBase)]) :
          u \in {a}, q \in {k \div LimbBits}, r \in {Pow2[k % LimbBits]} })

\* a \div 2^k
NShr(a, k) ==
    IF k = 0 THEN a
    ELSE
    Val({ IF q >= Len(u) THEN << >>
          ELSE NTrim([i \in 1..(Len(u) - q) |->
                        (Limb(u, i + q) \div r)
                            + (Limb(u, i + q + 1) % r) * (LimbBase \div r)]) :
          u \in {a}, q \in {k \div LimbBits}, r \in {Pow2[k % LimbBits]} })

\* Bit j of a, the lowest being bit 0.
NBit(a, j) == (Limb(a, j \div LimbBits + 1) \div Pow2[j % LimbBits]) % 2

\* Some bit of a below bit j is set.
NSticky(a, j) ==
    \/ \E i \in 1..Min(Len(a), j \div LimbBits) : a[i] # 0
    \/ Limb(a, j \div LimbBits + 1) % Pow2[j % LimbBits] # 0

\* The number of zero bits at the low end of a > 0.
NTrailingZeros(a) ==
    Val({ (i - 1) * LimbBits
              + (CHOOSE k \in 0..(LimbBits - 1) :
                     u[i] % Pow2[k] = 0 /\ (u[i] \div Pow2[k]) % 2 = 1) :
          u \in {a},
          i \in {CHOOSE i \in 1..Len(a) : a[i] # 0 /\ \A j \in 1..(i - 1) : a[j] = 0} })

\* One digit of a long division of the remainder r by b, which has its top
\* limb at least LimbBase / 2: <<d, r - b * d>> for the largest d with
\* b * d <= r, estimated from the top limbs.
NDivDigit(b, r) ==
    IF Len(r) < Len(b) THEN <<0, r>>
    ELSE Val({ IF NCmp(prod, r) <= 0 THEN <<est, NSub(r, prod)>>
               ELSE IF NCmp(NSub(prod, b), r) <= 0
               THEN <<est - 1, NSub(r, NSub(prod, b))>>
               ELSE <<est - 2, NSub(r, NSub(NSub(prod, b), b))>> :
               est \in {Min(LimbBase - 1,
                            (Limb(r, Len(b) + 1) * LimbBase + Limb(r, Len(b)))
                                \div b[Len(b)])},
               prod \in {NMulSmall(b, Min(LimbBase - 1,
                            (Limb(r, Len(b) + 1) * LimbBase + Limb(r, Len(b)))
                                \div b[Len(b)]))} })

\* Long division from limb j of a down, r the remainder and q the quotient
\* so far: <<quotient, remainder>>.
RECURSIVE NDivStep(_, _, _, _, _)
NDivStep(a, b, j, r, q) ==
    IF j = 0 THEN <<NTrim(q), r>>
    ELSE Val({ NDivStep(a, b, j - 1, dr[2], <<dr[1]>> \o q) :
               dr \in {NDivDigit(b, NTrim(<<a[j]>> \o r))} })

\* Short division, by a limb d, from limb j of a down, r the remainder and q
\* the quotient so far: <<quotient, remainder>>.
RECURSIVE NDivSmallStep(_, _, _, _, _)
NDivSmallStep(a, d, j, r, q) ==
    IF j = 0 THEN <<NTrim(q), NOf(r)>>
    ELSE NDivSmallStep(a, d, j - 1, (r * LimbBase + a[j]) % d,
                       <<(r * LimbBase + a[j]) \div d>> \o q)

\* <<a \div b, r>> with r = << >> exactly when b divides a.  The long
\* division starts with the top limbs of a, one fewer than b has, as the
\* remainder.
NDivMod(a, b) ==
    IF Len(b) = 1 THEN NDivSmallStep(a, b[1], Len(a), 0, << >>)
    ELSE Val({ IF Len(u) < Len(v) THEN << << >>, u >>
               ELSE NDivStep(u, v, Len(u) - Len(v) + 1,
                             SubSeq(u, Len(u) - Len(v) + 2, Len(u)), << >>) :
               u \in {NShl(a, LimbBits - BitLenInt(b[Len(b)]))},
               v \in {NShl(b, LimbBits - BitLenInt(b[Len(b)]))} })

\* The integer part of the square root of t < LimbBase^2, by Newton's
\* iteration from an x that is not below it.
RECURSIVE ISqrtFrom(_, _)
ISqrtFrom(t, x) ==
    IF x * x <= t THEN x ELSE ISqrtFrom(t, (x + t \div x) \div 2)

\* The integer part of the square root of a, by Newton's iteration from an
\* x that is not below it.
RECURSIVE NSqrtFrom(_, _)
NSqrtFrom(a, x) ==
    Val({ IF NCmp(y, x) >= 0 THEN x ELSE NSqrtFrom(a, y) :
          y \in {NShr(NAdd(x, NDivMod(a, x)[1]), 1)} })

\* The iteration starts from the root of the top two limbs, plus one, put
\* half as many limbs up as there are below them.
NSqrt(a) ==
    Val({ IF Len(u) = 0 THEN << >>
          ELSE IF Len(u) <= 2
          THEN NOf(ISqrtFrom(Limb(u, 2) * LimbBase + u[1], LimbBase))
          ELSE NSqrtFrom(u, NShl(NOf(ISqrtFrom(u[Len(u)] * LimbBase
                                                   + u[Len(u) - 1],
                                               LimbBase) + 1),
                                 (Len(u) - 2) * (LimbBits \div 2))) :
          u \in {a} })

Flt(s, m, e) == [s |-> s, m |-> m, e |-> e]

\* 0.0
FZero == Flt(0, << >>, 0)

\* nan, the result of an operation that has none (the root of a negative
\* number): it is told by its sign 2.  An operation on nan gives nan.
FNaN == Flt(2, <<1>>, 0)

\* The one way to hold a number: m odd, and 0.0 as FZero.
FNorm(x) ==
    Val({ IF u.s = 0 \/ Len(u.m) = 0 THEN FZero
          ELSE IF u.m[1] % 2 = 1 THEN u
          ELSE Val({ Flt(u.s, NShr(u.m, z), u.e + z) :
                     z \in {NTrailingZeros(u.m)} }) :
          u \in {x} })

\* float(n) of an integer n.
FOfInt(n) ==
    IF n = 0 THEN FZero
    ELSE IF n > 0 THEN FNorm(Flt(1, NOf(n), 0)) ELSE FNorm(Flt(-1, NOf(0 - n), 0))

\* 1.0
FOne == FOfInt(1)

\* x, which has k > 0 bits too many, rounded.
FRoundOff(x, k) ==
    Flt(x.s,
        IF NBit(x.m, k - 1) = 1 /\ (NSticky(x.m, k - 1) \/ NBit(x.m, k) = 1)
        THEN NAdd(NShr(x.m, k), <<1>>) ELSE NShr(x.m, k),
        x.e + k)

\* x rounded to p significant bits.
FRound(x, p) ==
    Val({ FNorm(IF len <= p THEN u ELSE FRoundOff(u, len - p)) :
          u \in {x}, len \in {NBitLen(x.m)} })

FNeg(x) == Val({ IF u.s = 2 THEN u ELSE Flt(0 - u.s, u.m, u.e) : u \in {x} })

\* abs(x)
FAbs(x) == Val({ IF u.s = 2 THEN u ELSE Flt(u.s * u.s, u.m, u.e) : u \in {x} })

\* x, which has k > 0 bits too many, without them.
FCutOff(x, k) == Flt(x.s, NShr(x.m, k), x.e + k)

\* x rounded to p significant bits towards zero.
FRoundDown(x, p) ==
    Val({ Val({ IF len <= p THEN u ELSE FNorm(FCutOff(u, len - p)) :
                len \in {NBitLen(u.m)} }) :
          u \in {FNorm(x)} })

\* x rounded to p significant bits away from zero.
FRoundUp(x, p) ==
    Val({ Val({ IF len <= p THEN u
                ELSE FNorm(Flt(u.s, NAdd(NShr(u.m, len - p), <<1>>),
                               u.e + len - p)) :
                len \in {NBitLen(u.m)} }) :
          u \in {FNorm(x)} })

\* x + y exactly, for x and y not zero with magnitudes mx and my in units
\* of 2^e.
FSumAligned(x, y, e, mx, my) ==
    IF x.s = y.s THEN Flt(x.s, NAdd(mx, my), e)
    ELSE IF NCmp(mx, my) = 0 THEN FZero
    ELSE IF NCmp(mx, my) > 0 THEN Flt(x.s, NSub(mx, my), e)
    ELSE Flt(y.s, NSub(my, mx), e)

\* x + y exactly.
FSum(x, y) ==
    Val({ IF u.s = 2 \/ v.s = 2 THEN FNaN
          ELSE IF u.s = 0 THEN v
          ELSE IF v.s = 0 THEN u
          ELSE Val({ FSumAligned(u, v, Min(u.e, v.e), mx, my) :
                     mx \in {NShl(u.m, u.e - Min(u.e, v.e))},
                     my \in {NShl(v.m, v.e - Min(u.e, v.e))} }) :
          u \in {x}, v \in {y} })

\* 1, 0 or -1 as x > y, x = y or x < y, and 2 when x or y is nan.
FCmp(x, y) == FSum(x, FNeg(y)).s

\* x > y, x >= y, x < y and x <= y: all false when x or y is nan.
FGt(x, y) == FCmp(x, y) = 1

FGe(x, y) == FCmp(x, y) \in {0, 1}

FLt(x, y) == FCmp(x, y) = -1

FLe(x, y) == FCmp(x, y) \in {0, -1}

\* x + y, x - y and x * y in p bits.
FAdd(x, y, p) == FRound(FSum(x, y), p)

FSub(x, y, p) == FRound(FSum(x, FNeg(y)), p)

\* x * y exactly.
FProduct(x, y) ==
    Val({ IF u.s = 2 \/ v.s = 2 THEN FNaN
          ELSE IF u.s = 0 \/ v.s = 0 THEN FZero
          ELSE IF v.m = <<1>> THEN Flt(u.s * v.s, u.m, u.e + v.e)
          ELSE IF u.m = <<1>> THEN Flt(u.s * v.s, v.m, u.e + v.e)
          ELSE Flt(u.s * v.s, NMul(u.m, v.m), u.e + v.e) :
          u \in {x}, v \in {y} })

FMul(x, y, p) == FRound(FProduct(x, y), p)

\* x / y from the quotient of x.m * 2^k by y.m, which is long enough to
\* round (its lowest bit stands for a remainder that is not zero).
FDivShifted(x, y, p, k) ==
    Val({ FRound(Flt(x.s * y.s,
                     NAdd(NShl(qr[1], 1),
                          IF qr[2] = << >> THEN << >> ELSE <<1>>),
                     x.e - y.e - k - 1), p) :
          qr \in {NDivMod(NShl(x.m, k), y.m)} })

\* x / y in p bits, y not zero.
FDiv(x, y, p) ==
    Val({ IF u.s = 2 \/ v.s = 2 THEN FNaN
          ELSE IF u.s = 0 THEN FZero
          ELSE IF v.m = <<1>> THEN FRound(Flt(u.s * v.s, u.m, u.e - v.e), p)
          ELSE Val({ FDivShifted(u, v, p, k) :
                     k \in {Max(0, p + 2 + NBitLen(v.m) - NBitLen(u.m))} }) :
          u \in {x}, v \in {y} })

\* The square root of x from the integer root r of n = x.m * 2^k: twice r,
\* plus one when r is below the root of n.
FRootShifted(x, k, n) ==
    Val({ Flt(1, NAdd(NShl(r, 1), IF NMul(r, r) = n THEN << >> ELSE <<1>>),
              (x.e - k) \div 2 - 1) :
          r \in {NSqrt(n)} })

\* The square root of x to more than p + 1 bits: the root itself where it
\* has no more, and else a number that rounds to p bits as the root does,
\* whichever way.  That of the square of a small integer is that integer;
\* that of a negative number is nan.
FRoot(x, p) ==
    Val({ IF u.s = 2 \/ u.s = -1 THEN FNaN
          ELSE IF u.s = 0 THEN FZero
          ELSE IF /\ Len(u.m) = 1 /\ u.e % 2 = 0
                  /\ \E r \in 1..Pow2[LimbBits \div 2] : r * r = u.m[1]
          THEN Flt(1, <<CHOOSE r \in 1..Pow2[LimbBits \div 2] : r * r = u.m[1]>>,
                   u.e \div 2)
          ELSE Val({ Val({ FRootShifted(u, k, n) : n \in {NShl(u.m, k)} }) :
                     k \in {Max(0, 2 * (p + 2) - NBitLen(u.m))
                              + ((u.e - Max(0, 2 * (p + 2) - NBitLen(u.m))) % 2)} }) :
          u \in {x} })

\* sqrt(x) in p bits, correctly rounded.
FSqrt(x, p) == FRound(FRoot(x, p), p)

\* pow(x, y) of the C library, with which Python computes x ** y of two
\* floats, is not correctly rounded: its error is below one unit in the last
\* place.  It returns the power itself where that is a double, and else one
\* of the two doubles next to the power, which one depending on the library.
\* x is the power, exactly or as FRoot gives it: the doubles pow can return.
Pow(x) == {FRoundDown(x, DoubleBits), FRoundUp(x, DoubleBits)}

\* The float a decimal literal denotes, the literal written as the fraction
\* <<num, den>>: the double nearest to num / den.
Literal(f) == FDiv(FOfInt(f[1]), FOfInt(f[2]), DoubleBits)

\* The float of a coordinate held in 1/CoordDen pixels.
Coord(c) ==
    IF c % CoordDen = 0 THEN FOfInt(c \div CoordDen)
    ELSE FDiv(FOfInt(c), FOfInt(CoordDen), DoubleBits)

\* DBL_EPSILON of the C library.
DBL_EPSILON == Flt(1, <<1>>, 1 - DoubleBits)

\* The float defaults of hybrid_rematch and run_selective_tracking.
distance_weight == Literal(<<3, 10>>)
histogram_weight == Literal(<<7, 10>>)
similarity_threshold == Literal(<<4, 10>>)
histogram_ema_alpha == Literal(<<1, 10>>)

\* -------------------------------------------------------------- detections
\* Appearance of a crop: the histogram extract_color_histogram returns for
\* it with the default bins: the hue bins followed by the saturation bins,
\* each half stretched to 0..1.
default_bins_h == 50
default_bins_s == 50

\* A crop of one colour: all pixels in hue bin h and saturation bin s
\* (counted from 0).
OneColour(h, s) ==
    [k \in 1..(default_bins_h + default_bins_s) |->
        IF k = h + 1 \/ k = default_bins_h + s + 1 THEN FOne ELSE FZero]

\* Saturated red (hue 0, saturation 255) and a pale blue (hue 120,
\* saturation 128).
Red == OneColour(0, default_bins_s - 1)
Blue == OneColour((120 * default_bins_h) \div 180, (128 * default_bins_s) \div 256)

\* Crops of many colours: equally many pixels in every second hue bin and
\* every second saturation bin, and in the other bins.
OddBins ==
    [k \in 1..(default_bins_h + default_bins_s) |->
        IF k % 2 = 1 THEN FOne ELSE FZero]
EvenBins ==
    [k \in 1..(default_bins_h + default_bins_s) |->
        IF k % 2 = 0 THEN FOne ELSE FZero]

Det(b, t, h) == [bbox |-> b, track_id |-> t, hist |-> h]

BoxA == Box(Px(0), Px(0), Px(10), Px(20))
BoxB == Box(Px(10), Px(0), Px(20), Px(20))
\* Overlaps BoxA and BoxB with IOU 1/3 each.
BoxM == Box(Px(5), Px(0), Px(15), Px(20))
\* Larger than BoxA, with a fractional left edge.
BoxAw == Box(Px(0) + 1, Px(0), Px(11), Px(21))
\* BoxA reaching out of the frame by fractions of a pixel (-0.5, -1.5).
BoxAn == Box(0 - 1, 0 - 3, Px(10), Px(20))
\* BoxB moved left by a fraction of a pixel.
BoxBf == Box(Px(9) + 1, Px(0), Px(19) + 1, Px(20))

\* What model.track can return for one frame (the list built at lines
\* 275-284): no boxes; boxes with distinct track ids; boxes without ids.
DetectorFrames ==
    { << >>,
      << Det(BoxA, 1, Red), Det(BoxB, 2, Blue) >>,
      << Det(BoxA, 2, Red), Det(BoxB, 1, Blue) >>,
      << Det(BoxA, 1, Red), Det(BoxB, 2, Red) >>,
      << Det(BoxAw, 1, Red) >>,
      << Det(BoxAn, 1, Red) >>,
      << Det(BoxM, 1, Red) >>,
      << Det(BoxM, 3, Red) >>,
      << Det(BoxBf, 3, Red) >>,
      << Det(BoxA, 1, Blue), Det(BoxB, 4, Red) >>,
      << Det(BoxA, None, Red), Det(BoxB, None, Blue) >> }

\* selected_players of the selection record.
Selections ==
    { << >>,
      << [selection_id |-> 1, initial_bbox |-> BoxA],
         [selection_id |-> 2, initial_bbox |-> BoxB] >> }

\* ------------------------------------------------------------- appearance
\* extract_color_histogram: the histogram of a detection's crop is a
\* function of the frame's pixels; a detection carries it as field hist.
extract_color_histogram(det) == det.hist

\* acc + x[k1] + x[k2] + ... in double, ks = {k1 < k2 < ...}.
RECURSIVE AddInOrder(_, _, _)
AddInOrder(x, ks, acc) ==
    IF ks = {} THEN acc
    ELSE Val({ Val({ AddInOrder(x, rest, a) :
                     rest \in {ks \ {k}},
                     a \in {FAdd(acc, x[k], DoubleBits)} }) :
               k \in {CHOOSE k \in ks : \A j \in ks : k <= j} })

\* The indices of ks in lo..hi that are in lane l (every second index of
\* lo..hi when lanes = 2) and at which x is not 0.0; adding 0.0 leaves a sum
\* as it is.
Terms(x, ks, lo, hi, l, lanes) ==
    {k \in ks : k >= lo /\ k <= hi /\ (k - lo) % lanes = l /\ x[k].s # 0}

\* A sum of cv2.compareHist over n components x, which are 0.0 outside the
\* indices ks, in double: the components four at a time, the first and third
\* of each four added to one accumulator and the second and fourth to
\* another (the two lanes of a 128-bit register of doubles), the two
\* accumulators added together, and then the last n % 4 components one by
\* one.
\* (Ones add up to their number without rounding, in any order.)
HistSum(x, ks, n) ==
    Val({ IF \A k \in ks : x[k] \in {FZero, FOne}
          THEN FOfInt(Cardinality(Terms(x, ks, 1, n, 0, 1)))
          ELSE AddInOrder(x, Terms(x, ks, n4 + 1, n, 0, 1),
                          FAdd(AddInOrder(x, Terms(x, ks, 1, n4, 0, 2), FZero),
                               AddInOrder(x, Terms(x, ks, 1, n4, 1, 2), FZero),
                               DoubleBits)) :
          n4 \in {(n \div 4) * 4} })

\* a[k] * b[k] in double, for the indices ks: at every other index one of
\* the factors, and so the product, is 0.0.
Products(a, b, ks) == [k \in ks |-> FMul(a[k], b[k], DoubleBits)]

\* The indices at which histogram h is not 0.0.
Support(h) == {k \in 1..Len(h) : h[k].s # 0}

\* The result of cv2.compareHist from its five sums and scale = 1 / n:
\*   num = s12 - s1*s2*scale
\*   denom2 = (s11 - s1*s1*scale) * (s22 - s2*s2*scale)
\*   abs(denom2) > DBL_EPSILON ? num / sqrt(denom2) : 1.
\* (for a denom2 below -DBL_EPSILON, which rounding can produce, the root
\* and the result are nan).
Correlation(s1, s2, s11, s12, s22, scale) ==
    Val({ IF FGt(FAbs(denom2), DBL_EPSILON)
          THEN FDiv(num, FSqrt(denom2, DoubleBits), DoubleBits)
          ELSE FOne :
          num \in {FSub(s12, FMul(FMul(s1, s2, DoubleBits), scale, DoubleBits),
                        DoubleBits)},
          denom2 \in {FMul(FSub(s11, FMul(FMul(s1, s1, DoubleBits), scale,
                                          DoubleBits), DoubleBits),
                           FSub(s22, FMul(FMul(s2, s2, DoubleBits), scale,
                                          DoubleBits), DoubleBits),
                           DoubleBits)} })

\* cv2.compareHist with method cv2.HISTCMP_CORREL on two float32 histograms:
\* a double.
compareHist(hist1, hist2) ==
    Val({ Val({ Correlation(s1, s2, s11, s12, s22, scale) :
                s1 \in {HistSum(h1, k1, n)}, s2 \in {HistSum(h2, k2, n)},
                s11 \in {HistSum(Products(h1, h1, k1), k1, n)},
                s12 \in {HistSum(Products(h1, h2, k1 \cap k2), k1 \cap k2, n)},
                s22 \in {HistSum(Products(h2, h2, k2), k2, n)},
                scale \in {FDiv(FOne, FOfInt(n), DoubleBits)} }) :
          h1 \in {hist1}, h2 \in {hist2}, n \in {Len(hist1)},
          k1 \in {Support(hist1)}, k2 \in {Support(hist2)} })

\* The factors of update_histogram_ema, <<1 - alpha, alpha>>: 1 - alpha is
\* computed in double from the Python float alpha, and numpy takes both to
\* float32 to multiply float32 arrays by them.
Factors(alpha) ==
    <<FRound(FSub(FOne, alpha, DoubleBits), SingleBits), FRound(alpha, SingleBits)>>

\* (1 - alpha) * reference_hist[k] + alpha * new_hist[k]: the two products
\* and their sum in float32.
Blend(reference, new, factors) ==
    FAdd(FMul(factors[1], reference, SingleBits),
         FMul(factors[2], new, SingleBits), SingleBits)

\* (1 - alpha) * reference_hist + alpha * new_hist, bin by bin.
Blended(reference_hist, new_hist, alpha) ==
    Val({ [k \in 1..Len(r) |->
              IF r[k].s = 0 /\ n[k].s = 0 THEN FZero
              ELSE Blend(r[k], n[k], f)] \o << >> :
          r \in {reference_hist}, n \in {new_hist}, f \in {Factors(alpha)} })

\* Variant of RematchAlpha without the cap at 1.0.
RematchAlphaUncapped(alpha) == FMul(alpha, Literal(<<3, 2>>), DoubleBits)

\* min(1.0, histogram_ema_alpha * 1.5)
RematchAlpha(alpha) ==
    Val({ IF FLt(a, FOne) THEN a ELSE FOne :
          a \in {FMul(alpha, Literal(<<3, 2>>), DoubleBits)} })

\* -------------------------------------------------------- hybrid_rematch
NoMatch == [track_id |-> None, bbox |-> Box(0, 0, 0, 0), hist |-> <<>>]

\* (x1 + x2) / 2
Center(lo, hi) ==
    FDiv(FAdd(Coord(lo), Coord(hi), DoubleBits), FOfInt(2), DoubleBits)

\* x ** 2 and x ** 0.5 of a float x: the doubles pow can return.
Squares(x) == Pow(FProduct(x, x))

Roots(x) == Pow(FRoot(x, DoubleBits))

\* (dx**2 + dy**2)**0.5: the doubles it can be, one for each way the three
\* powers can come out.
Hypotenuses(dx, dy) ==
    UNION {Roots(FAdd(sx, sy, DoubleBits)) : sx \in Squares(dx), sy \in Squares(dy)}

\* distance = ((det_cx - last_cx)**2 + (det_cy - last_cy)**2)**0.5: the
\* doubles distance can be.
CenterDistance(det_bbox, last_bbox) ==
    Hypotenuses(FSub(Center(det_bbox.x1, det_bbox.x2),
                     Center(last_bbox.x1, last_bbox.x2), DoubleBits),
                FSub(Center(det_bbox.y1, det_bbox.y2),
                     Center(last_bbox.y1, last_bbox.y2), DoubleBits))

\* ------------------------------------------------------------ known values
\* The detections of DetectorFrames and their boxes; the boxes the last_bbox
\* of a player can hold: a selected box, or the box of a detection, as it is
\* or truncated to integers.
Detections == UNION {{f[i] : i \in 1..Len(f)} : f \in DetectorFrames}
DetectionBoxes == {d.bbox : d \in Detections}
LastBoxes ==
    DetectionBoxes \cup {IntBox(b) : b \in DetectionBoxes}
    \cup UNION {{s[i].initial_bbox : i \in 1..Len(s)} : s \in Selections}

\* The histograms of the detections, and the reference histograms a player
\* can hold after n updates: it starts as the histogram of a detection and
\* an update blends in another with histogram_ema_alpha or, after a
\* rematch, with RematchAlpha of it.
DetectionHistograms == {extract_color_histogram(d) : d \in Detections}
UpdateAlphas == {histogram_ema_alpha, RematchAlpha(histogram_ema_alpha)}
RECURSIVE ReferenceHistograms(_)
ReferenceHistograms(n) ==
    IF n <= 0 THEN DetectionHistograms
    ELSE ReferenceHistograms(n - 1)
         \cup {Blended(r, h, a) : r \in ReferenceHistograms(n - 1),
                                  h \in DetectionHistograms, a \in UpdateAlphas}

\* The arguments with which a run of at most MaxFrames frames calls
\* Distance, compare_histograms and update_histogram_ema on the detections
\* above (a frame of the run updates a reference histogram at most once, and
\* the first frame never does), and the values they return, computed once.
DistanceCalls == DetectionBoxes \X LastBoxes
Distances == [c \in DistanceCalls |-> CenterDistance(c[1], c[2])] @@ << >>
CompareCalls == ReferenceHistograms(MaxFrames - 2) \X DetectionHistograms
Similarities == [c \in CompareCalls |-> compareHist(c[1], c[2])] @@ << >>
UpdateCalls ==
    ReferenceHistograms(MaxFrames - 2) \X DetectionHistograms \X UpdateAlphas
Updates == [c \in UpdateCalls |-> Blended(c[1], c[2], c[3])] @@ << >>

\* compare_histograms with the default method, cv2.HISTCMP_CORREL: the value
\* of cv2.compareHist, from Similarities where it is already there.
compare_histograms(hist1, hist2) ==
    IF <<hist1, hist2>> \in CompareCalls THEN Similarities[<<hist1, hist2>>]
    ELSE compareHist(hist1, hist2)

\* Variant of update_histogram_ema that returns the blend of the first bin
\* only.
update_histogram_ema_first_bin(reference_hist, new_hist, alpha) ==
    << Blend(reference_hist[1], new_hist[1], Factors(alpha)) >>

\* update_histogram_ema: the blend, from Updates where it is already there.
update_histogram_ema(reference_hist, new_hist, alpha) ==
    IF <<reference_hist, new_hist, alpha>> \in UpdateCalls
    THEN Updates[<<reference_hist, new_hist, alpha>>]
    ELSE Blended(reference_hist, new_hist, alpha)

\* The doubles distance of hybrid_rematch can be, between the centres of
\* det_bbox and last_bbox, from Distances where they are already there.
Distance(det_bbox, last_bbox) ==
    IF <<det_bbox, last_bbox>> \in DistanceCalls
    THEN Distances[<<det_bbox, last_bbox>>]
    ELSE CenterDistance(det_bbox, last_bbox)


\* Variant of MaxDistance without the cap.
MaxDistanceUncapped(frames_lost, speed, cap) == speed * frames_lost * CoordDen

\* max_distance = min(base_speed * frames_lost, max_distance_cap), in
\* 1/CoordDen pixels.
MaxDistance(frames_lost, speed, cap) == Min(speed * frames_lost, cap) * CoordDen

\* distance > max_distance
TooFar(distance, max_distance) == FGt(distance, Coord(max_distance))

\* distance_score = 1 - distance / max_distance if max_distance > 0 else 1.0
DistanceScore(distance, max_distance) ==
    IF max_distance > 0
    THEN FSub(FOne, FDiv(distance, Coord(max_distance), DoubleBits), DoubleBits)
    ELSE FOne

\* histogram_score = (histogram_similarity + 1) / 2
HistogramScore(reference_histogram, det_histogram) ==
    FDiv(FAdd(compare_histograms(reference_histogram, det_histogram), FOne,
              DoubleBits),
         FOfInt(2), DoubleBits)

\* combined_score =
\*   distance_weight * distance_score + histogram_weight * histogram_score
CombinedScore(distance_score, histogram_score) ==
    FAdd(FMul(distance_weight, distance_score, DoubleBits),
         FMul(histogram_weight, histogram_score, DoubleBits), DoubleBits)

\* combined_score > best_score
Better(combined_score, best_score) == FGt(combined_score, best_score)

\* combined_score >= similarity_threshold
MeetsThreshold(combined_score, threshold) == FGe(combined_score, threshold)

\* Variant of Claimed that does not consult assigned_track_ids.
ClaimedIgnoringSet(det, assigned) == det.track_id = None

\* The candidate filter of the loop body: track_id is None or already
\* assigned -> continue.
Claimed(det, assigned) == det.track_id = None \/ det.track_id \in assigned

\* The score of a candidate at the given distance.
CandidateScore(reference_histogram, det, distance, max_distance) ==
    \* det_histogram is never None: the branch `if det_histogram is None`
    \* is not taken
    CombinedScore(DistanceScore(distance, max_distance),
                  HistogramScore(reference_histogram,
                                 extract_color_histogram(det)))

\* The loop of hybrid_rematch over detections i..Len, carrying
\* (best_score, best_match): the values of best_match it can end with, one
\* for each way the distances can come out.
RECURSIVE RematchFrom(_, _, _, _, _, _, _, _, _)
RematchFrom(last_bbox, reference_histogram, max_distance, dets, assigned, threshold, i, best_score, best_match) ==
    IF i > Len(dets) THEN {best_match}
    ELSE IF Claimed(dets[i], assigned)
    THEN RematchFrom(last_bbox, reference_histogram, max_distance, dets,
                     assigned, threshold, i + 1, best_score, best_match)
    ELSE UNION {
        IF TooFar(distance, max_distance)
        THEN RematchFrom(last_bbox, reference_histogram, max_distance, dets,
                         assigned, threshold, i + 1, best_score, best_match)
        ELSE Val({
            IF Better(combined_score, best_score)
                  /\ MeetsThreshold(combined_score, threshold)
            THEN RematchFrom(last_bbox, reference_histogram, max_distance,
                             dets, assigned, threshold, i + 1, combined_score,
                             [track_id |-> dets[i].track_id,
                              bbox |-> dets[i].bbox,
                              hist |-> extract_color_histogram(dets[i])])
            ELSE RematchFrom(last_bbox, reference_histogram, max_distance,
                             dets, assigned, threshold, i + 1, best_score,
                             best_match) :
            combined_score \in {CandidateScore(reference_histogram, dets[i],
                                               distance, max_distance)} }) :
        distance \in Distance(dets[i].bbox, last_bbox) }

\* hybrid_rematch; best_score starts at 0.  The values it can return: one,
\* unless the doubles a distance can be decide differently.
hybrid_rematch(last_bbox, reference_histogram, frames_lost, current_detections, assigned, speed, cap, threshold) ==
    RematchFrom(last_bbox, reference_histogram,
                MaxDistance(frames_lost, speed, cap), current_detections,
                assigned, threshold, 1, FZero, NoMatch)


\* ------------------------------------------------------------------ inputs
SelectionFrames == {0, 1}
MaxDistanceCaps == {8, 500}
MaxFramesArgs == {None, 0, MaxFrames - 1}

\* The keyword arguments of run_selective_tracking at their defaults.
DefaultArgs ==
    [max_frames |-> None, max_distance_cap |-> 500,
     iou_threshold |-> <<5, 10>>, fixed_output_size |-> << >>]

\* The calls: every max_frames and max_distance_cap, and one call each with a
\* non-default iou_threshold and with a fixed output size (width, height).
RunArgs ==
    {[DefaultArgs EXCEPT !.max_frames = m, !.max_distance_cap = c] :
        m \in MaxFramesArgs, c \in MaxDistanceCaps}
    \cup {[DefaultArgs EXCEPT !.iou_threshold = <<8, 10>>],
          [DefaultArgs EXCEPT !.fixed_output_size = <<64, 48>>]}

\* The video streams: n frames, all readable and detected without error; or
\* MaxFrames frames of which one cannot be read (cap.read() returns ret
\* False for it), or on which the detector raises.
Streams ==
    {[frames |-> n, unreadable |-> None, detector_error |-> None] :
        n \in 0..MaxFrames}
    \cup {[frames |-> MaxFrames, unreadable |-> k, detector_error |-> None] :
             k \in 0..(MaxFrames - 1)}
    \cup {[frames |-> MaxFrames, unreadable |-> None, detector_error |-> k] :
             k \in 0..(MaxFrames - 1)}

\* ------------------------------------------------------------------- state
VARIABLES
    selection_frame_idx,  \* selection_data["selection_frame"]
    max_frames,           \* argument max_frames (None: no cap)
    max_distance_cap,     \* argument max_distance_cap, in pixels
    iou_threshold,        \* argument iou_threshold, a fraction
    fixed_output_size,    \* argument fixed_output_size (<< >>: None)
    video_frames,         \* number of frames of the video stream
    unreadable_frame,     \* index of the frame cap.read() fails on, or None
    detector_error_frame, \* index of the frame model.track raises on, or None
    player_states,        \* list of player state dicts
    frame_idx,
    detections,           \* detections of the frame being processed
    assigned_track_ids,
    pc,                   \* position in run_selective_tracking
    idx,                  \* position of the player loop (1-based)
    match_idx,            \* result of match_bbox_to_detections (1-based)
    rematch,              \* result of hybrid_rematch
    tracking_results      \* tracking_results["selected_players"]

\* The state of the other modules, one record each.
VARIABLES
    crop_call,            \* one call of video_cropper's frame functions
    named_cropper,        \* crop_named_player_videos
    pipeline              \* run_interactive_tracking

\* One call of a function that has no state of its own: its name ("none"
\* before the call), its arguments and, once it has returned, its result,
\* or the exception it has raised.
VARIABLES
    function_call

\* The GUI selector: the fields of one PlayerSelector object, the video it
\* reads, the last event its loop handled and what run returned.
VARIABLES
    selector

\* What run_selective_tracking does not touch.
outside_tracker == <<crop_call, named_cropper, pipeline, function_call, selector>>

tracker_vars == <<selection_frame_idx, max_frames, max_distance_cap, iou_threshold,
          fixed_output_size, video_frames, unreadable_frame,
          detector_error_frame, player_states, frame_idx, detections,
          assigned_track_ids, pc, idx, match_idx, rematch, tracking_results>>

vars == <<tracker_vars, outside_tracker>>

params == <<selection_frame_idx, max_frames, max_distance_cap, iou_threshold,
            fixed_output_size, video_frames, unreadable_frame,
            detector_error_frame>>

EmptyFrames == [k \in {} |-> Box(0, 0, 0, 0)]

\* Variant of Put that drops the entries written before.
PutAlone(frames, k, v) == [x \in {k} |-> v]

\* frames[str(frame_idx)] = bbox
Put(frames, k, v) ==
    [x \in (DOMAIN frames) \cup {k} |-> IF x = k THEN v ELSE frames[x]]

\* player_states.append({...}) for one selected player.
NewPlayerState(p) ==
    [selection_id |-> p.selection_id,
     current_track_id |-> None,
     last_bbox |-> p.initial_bbox,
     reference_histogram |-> << >>,
     frames_lost |-> 0,
     frames |-> EmptyFrames,
     max_bbox |-> [width |-> 0, height |-> 0],
     missing_frames |-> << >>]

Players == 1..Len(player_states)

InitWith(selection, sel_frame, args, stream) ==
    /\ selection_frame_idx = sel_frame
    /\ max_frames = args.max_frames
    /\ max_distance_cap = args.max_distance_cap
    /\ iou_threshold = args.iou_threshold
    /\ fixed_output_size = args.fixed_output_size
    /\ video_frames = stream.frames
    /\ unreadable_frame = stream.unreadable
    /\ detector_error_frame = stream.detector_error
    /\ player_states = [i \in 1..Len(selection) |-> NewPlayerState(selection[i])]
    /\ frame_idx = 0
    /\ detections = << >>
    /\ assigned_track_ids = {}
    /\ pc = "read"
    /\ idx = 1
    /\ match_idx = None
    /\ rematch = NoMatch
    /\ tracking_results = << >>

\* The canvas positions of an image of h rows and w columns.
Canvas(h, w) == (0..(h - 1)) \X (0..(w - 1))

\* np.zeros((h, w, 3)): a black image, its shape (rows, columns) and its
\* pixels; 0 is black.
Zeros(h, w) == [shape |-> <<h, w>>, px |-> [q \in Canvas(h, w) |-> 0]]

\* No frame function of video_cropper has been called.
NoCropCall ==
    [frame_shape |-> <<0, 0>>, bbox |-> Box(0, 0, 0, 0),
     output_size |-> [width |-> 0, height |-> 0],
     op |-> "none", output_frame |-> Zeros(0, 0)]

\* crop_named_player_videos has not been called.
NoNamedCropper ==
    [total_frames |-> 0, video_frames |-> 0, tracks |-> << >>,
     include_black_frames |-> TRUE, frame_idx |-> 0, writers |-> << >>,
     pc |-> "idle"]

\* run_interactive_tracking has not been called.
NoPipeline ==
    [selected_players_path |-> "", tracking_data_path |-> "",
     mode |-> << >>, include_black_frames |-> TRUE,
     final_selection_path |-> "", final_tracking_path |-> "",
     selection_result |-> "unset", calls |-> << >>,
     result |-> << >>, pc |-> "idle"]

\* No function is being called on its own.
NoFunctionCall ==
    [function |-> "none", arguments |-> << >>, result |-> << >>,
     raised |-> "none"]

\* No PlayerSelector has been constructed.
NoSelector ==
    [pc |-> "idle", video |-> << >>, unreadable |-> {}, frame_index |-> 0,
     total_frames |-> 0, max_players |-> 0, frame |-> None,
     detections |-> << >>, selected_indices |-> << >>,
     player_names |-> << >>, result |-> << >>,
     event |-> [key |-> "none", x |-> 0, y |-> 0, typed |-> << >>,
                error |-> ""]]

OutsideIdle ==
    /\ selector = NoSelector
    /\ crop_call = NoCropCall
    /\ named_cropper = NoNamedCropper
    /\ pipeline = NoPipeline
    /\ function_call = NoFunctionCall

Init ==
    /\ \E selection \in Selections, sel_frame \in SelectionFrames,
          args \in RunArgs, stream \in Streams :
           InitWith(selection, sel_frame, args, stream)
    /\ OutsideIdle


\* ------------------------------------------------------- per-player updates
\* Variant of UpdateMaxBbox that keeps the size of the latest bbox.
UpdateMaxBboxLatest(max_bbox, bbox) ==
    [width |-> bbox.x2 - bbox.x1, height |-> bbox.y2 - bbox.y1]

\* state["max_bbox"] = max(old, size of bbox), component-wise.
UpdateMaxBbox(max_bbox, bbox) ==
    [width |-> Max(max_bbox.width, bbox.x2 - bbox.x1),
     height |-> Max(max_bbox.height, bbox.y2 - bbox.y1)]

\* Index of the first detection whose track_id equals id, 0 if there is none
\* (the inner loop of PASS 1 with its break).
RECURSIVE FirstWithId(_, _, _)
FirstWithId(dets, id, i) ==
    IF i > Len(dets) THEN 0
    ELSE IF dets[i].track_id = id THEN i
    ELSE FirstWithId(dets, id, i + 1)

\* PASS 1 body on a hit: the player follows detection det.
Pass1Hit(state, det, f, alpha) ==
    LET bbox_dict == IntBox(det.bbox)
    IN [state EXCEPT
          !.frames = Put(@, f, bbox_dict),
          !.last_bbox = bbox_dict,
          !.frames_lost = 0,
          !.reference_histogram =
              IF @ # << >>
              THEN update_histogram_ema(@, extract_color_histogram(det), alpha)
              ELSE @,
          !.max_bbox = UpdateMaxBbox(@, bbox_dict)]

\* Variant of Pass1Miss that also forgets where the player was last seen.
Pass1MissForgetsBbox(state) ==
    [state EXCEPT !.current_track_id = None, !.frames_lost = @ + 1,
                  !.last_bbox = Box(0, 0, 0, 0)]

\* PASS 1 body on a miss.
Pass1Miss(state) ==
    [state EXCEPT !.current_track_id = None, !.frames_lost = @ + 1]

\* PASS 1 body for one player.
Pass1Player(state, dets, f, alpha) ==
    IF state.current_track_id = None THEN state
    ELSE LET k == FirstWithId(dets, state.current_track_id, 1)
         IN IF k # 0 THEN Pass1Hit(state, dets[k], f, alpha)
            ELSE Pass1Miss(state)

\* Track ids PASS 1 adds to assigned_track_ids for one player.
Pass1Claims(state, dets) ==
    IF state.current_track_id # None
       /\ FirstWithId(dets, state.current_track_id, 1) # 0
    THEN {state.current_track_id}
    ELSE {}

\* PASS 2, first branch, after match_bbox_to_detections returned m.
BootstrapUpdate(state, dets, m, f) ==
    IF m = None THEN state
    ELSE LET det == dets[m]
             det_bbox == IntBox(det.bbox)
         IN [state EXCEPT
               !.current_track_id = det.track_id,
               !.last_bbox = det_bbox,
               !.frames = Put(@, f, det_bbox),
               !.frames_lost = 0,
               !.reference_histogram = extract_color_histogram(det),
               !.max_bbox = UpdateMaxBbox(@, det_bbox)]

\* Variant of HybridUpdate that appends the frame to missing_frames whether or
\* not hybrid_rematch found a detection.
HybridUpdateAlwaysMissing(state, r, f, sel_frame, alpha) ==
    IF r.track_id # None
    THEN [state EXCEPT
            !.current_track_id = r.track_id,
            !.last_bbox = r.bbox,
            !.frames = Put(@, f, r.bbox),
            !.frames_lost = 0,
            !.missing_frames = Append(@, f),
            !.reference_histogram =
                update_histogram_ema(@, r.hist, RematchAlpha(alpha)),
            !.max_bbox = UpdateMaxBbox(@, r.bbox)]
    ELSE IF f >= sel_frame
    THEN [state EXCEPT !.frames_lost = @ + 1,
                       !.missing_frames = Append(@, f)]
    ELSE state

\* Variant of HybridUpdate that does not reset frames_lost on a re-match.
HybridUpdateKeepsLost(state, r, f, sel_frame, alpha) ==
    IF r.track_id # None
    THEN [state EXCEPT
            !.current_track_id = r.track_id,
            !.last_bbox = r.bbox,
            !.frames = Put(@, f, r.bbox),
            !.reference_histogram =
                update_histogram_ema(@, r.hist, RematchAlpha(alpha)),
            !.max_bbox = UpdateMaxBbox(@, r.bbox)]
    ELSE IF f >= sel_frame
    THEN [state EXCEPT !.frames_lost = @ + 1,
                       !.missing_frames = Append(@, f)]
    ELSE state

\* PASS 2, second branch, after hybrid_rematch returned r.
HybridUpdate(state, r, f, sel_frame, alpha) ==
    IF r.track_id # None
    THEN [state EXCEPT
            !.current_track_id = r.track_id,
            !.last_bbox = r.bbox,
            !.frames = Put(@, f, r.bbox),
            !.frames_lost = 0,
            !.reference_histogram =
                update_histogram_ema(@, r.hist, RematchAlpha(alpha)),
            !.max_bbox = UpdateMaxBbox(@, r.bbox)]
    ELSE IF f >= sel_frame
    THEN [state EXCEPT !.frames_lost = @ + 1,
                       !.missing_frames = Append(@, f)]
    ELSE state

\* ----------------------------------------------------------------- actions
\* Variant of PlayerOrder that visits the players last to first.
PlayerOrderReversed(k, n) == n + 1 - k

\* "for state in player_states": the player visited at position k of a loop
\* over n players.
PlayerOrder(k, n) == k

\* The PASS 1 loop is exhausted after position k of n.
Pass1LoopDone(k, n) == k >= n

\* The PASS 2 loop is exhausted after position k of n.
Pass2LoopDone(k, n) == k >= n

\* The player the running loop is at.
Cur == PlayerOrder(idx, Len(player_states))

\* The loop test of the frame loop: max_frames reached, or cap.read() fails
\* (no frame left, or the frame cannot be read).
LoopEnds ==
    \/ (max_frames # None /\ frame_idx >= max_frames)
    \/ frame_idx >= video_frames
    \/ frame_idx = unreadable_frame

\* Leaving the second player loop after player idx: next player, or
\* frame_idx += 1 and back to the loop test.
AdvancePass2 ==
    IF ~Pass2LoopDone(idx, Len(player_states))
    THEN /\ idx' = idx + 1
         /\ pc' = "pass2"
         /\ frame_idx' = frame_idx
    ELSE /\ idx' = 1
         /\ pc' = "read"
         /\ frame_idx' = frame_idx + 1

\* Variant of FreshAssignedTrackIds that carries the claims of the previous
\* frame over.
CarriedAssignedTrackIds(previous) == previous

\* assigned_track_ids = set() at the top of the frame body, whatever the set
\* of the previous frame held.
FreshAssignedTrackIds(previous) == {}

\* cap.read(), model.track and the detection list; assigned_track_ids = set().
\* An exception of model.track is not caught: it leaves the function.
ReadFrameWith(dets) ==
    /\ pc = "read"
    /\ ~LoopEnds
    /\ IF frame_idx = detector_error_frame
       THEN /\ pc' = "raised"
            /\ UNCHANGED <<detections, assigned_track_ids, idx, frame_idx>>
       ELSE /\ detections' = dets
            /\ assigned_track_ids' = FreshAssignedTrackIds(assigned_track_ids)
            /\ idx' = 1
            /\ IF Len(player_states) = 0
               THEN pc' = "read" /\ frame_idx' = frame_idx + 1
               ELSE pc' = "pass1" /\ frame_idx' = frame_idx
    /\ UNCHANGED <<params, player_states, match_idx, rematch,
                   tracking_results, outside_tracker>>

ReadFrame == \E dets \in DetectorFrames : ReadFrameWith(dets)

\* PASS 1, one player.
Pass1 ==
    /\ pc = "pass1"
    /\ player_states' =
         [player_states EXCEPT
            ![Cur] = Pass1Player(@, detections, frame_idx, histogram_ema_alpha)]
    /\ assigned_track_ids' =
         assigned_track_ids \cup Pass1Claims(player_states[Cur], detections)
    /\ IF ~Pass1LoopDone(idx, Len(player_states))
       THEN idx' = idx + 1 /\ pc' = "pass1"
       ELSE idx' = 1 /\ pc' = "pass2"
    /\ UNCHANGED <<params, frame_idx, detections, match_idx, rematch,
                   tracking_results, outside_tracker>>

\* PASS 2, one player, up to the return of the matching call.
Pass2Match ==
    /\ pc = "pass2"
    /\ LET state == player_states[Cur]
       IN IF state.current_track_id # None
          THEN /\ AdvancePass2
               /\ UNCHANGED <<match_idx, rematch>>
          ELSE IF state.reference_histogram = << >>
          THEN /\ match_idx' = match_bbox_to_detections(
                                   state.last_bbox, detections,
                                   bootstrap_iou_threshold)
               /\ pc' = "bootstrap"
               /\ UNCHANGED <<rematch, idx, frame_idx>>
          ELSE /\ rematch' \in hybrid_rematch(
                                 state.last_bbox, state.reference_histogram,
                                 state.frames_lost, detections,
                                 assigned_track_ids, base_speed,
                                 max_distance_cap, similarity_threshold)
               /\ pc' = "hybrid"
               /\ UNCHANGED <<match_idx, idx, frame_idx>>
    /\ UNCHANGED <<params, player_states, detections, assigned_track_ids,
                   tracking_results, outside_tracker>>

\* PASS 2, one player, from the return of the matching call on.
Pass2Update ==
    /\ pc \in {"bootstrap", "hybrid"}
    /\ IF pc = "bootstrap"
       THEN /\ player_states' =
                 [player_states EXCEPT
                    ![Cur] = BootstrapUpdate(@, detections, match_idx, frame_idx)]
            /\ assigned_track_ids' =
                 IF match_idx # None
                 THEN assigned_track_ids \cup {detections[match_idx].track_id}
                 ELSE assigned_track_ids
       ELSE /\ player_states' =
                 [player_states EXCEPT
                    ![Cur] = HybridUpdate(@, rematch, frame_idx,
                                          selection_frame_idx,
                                          histogram_ema_alpha)]
            /\ assigned_track_ids' =
                 IF rematch.track_id # None
                 THEN assigned_track_ids \cup {rematch.track_id}
                 ELSE assigned_track_ids
    /\ AdvancePass2
    /\ UNCHANGED <<params, detections, match_idx, rematch, tracking_results,
                   outside_tracker>>

\* int(v * 1.2) of a non-negative length v held in 1/CoordDen pixels, in
\* whole pixels.
PaddedInt(v) == (v * padding[1]) \div (padding[2] * CoordDen)

\* state["output_size"], in whole pixels: the fixed size if one is given,
\* else the padded max_bbox.
OutputSize(max_bbox, fixed) ==
    IF fixed # << >>
    THEN [width |-> fixed[1], height |-> fixed[2]]
    ELSE [width |-> PaddedInt(max_bbox.width),
          height |-> PaddedInt(max_bbox.height)]

\* The entry of tracking_results["selected_players"] for one player;
\* max_bbox is cast with int() and stays in 1/CoordDen pixels.
PlayerResult(state, fixed) ==
    [selection_id |-> state.selection_id,
     frames |-> state.frames,
     missing_frames |-> state.missing_frames,
     max_bbox |-> [width |-> IntTrunc(state.max_bbox.width),
                   height |-> IntTrunc(state.max_bbox.height)],
     output_size |-> OutputSize(state.max_bbox, fixed),
     frame_count |-> Cardinality(DOMAIN state.frames)]

\* The frame loop ends: cap.release(), the output sizes and the compilation
\* of the results.
Finish ==
    /\ pc = "read"
    /\ LoopEnds
    /\ pc' = "done"
    /\ tracking_results' =
         [p \in Players |-> PlayerResult(player_states[p], fixed_output_size)]
    /\ UNCHANGED <<params, player_states, frame_idx, detections,
                   assigned_track_ids, idx, match_idx, rematch,
                   outside_tracker>>

Next == ReadFrame \/ Pass1 \/ Pass2Match \/ Pass2Update \/ Finish

Spec == Init /\ [][Next]_vars


\* ------------------------------------------------------ ID-swap scenario
\* BoxA and BoxB moved right by a fraction of a pixel.
BoxAj == Box(Px(0) + 1, Px(0), Px(10) + 1, Px(20))
BoxBj == Box(Px(10) + 1, Px(0), Px(20) + 1, Px(20))

\* The detector's outputs for frame f of the scenario: the first player's
\* detection (Red, at BoxA up to a sub-pixel shift) and the second player's
\* (Blue, at BoxB up to a sub-pixel shift), in either order; track ids 1, 2
\* for the first ConsistentFrames frames and 2, 1 afterwards.
SwapFrameOutputs(f) ==
    LET ida == IF f < ConsistentFrames THEN 1 ELSE 2
        idb == IF f < ConsistentFrames THEN 2 ELSE 1
    IN UNION { { << Det(a, ida, Red), Det(b, idb, Blue) >>,
                 << Det(b, idb, Blue), Det(a, ida, Red) >> } :
               a \in {BoxA, BoxAj}, b \in {BoxB, BoxBj} }

TwoPlayers ==
    << [selection_id |-> 1, initial_bbox |-> BoxA],
       [selection_id |-> 2, initial_bbox |-> BoxB] >>

InitSwap ==
    /\ InitWith(TwoPlayers, 0, DefaultArgs,
                [frames |-> ConsistentFrames + SwapFrames,
                 unreadable |-> None, detector_error |-> None])
    /\ OutsideIdle

ReadSwapFrame == \E dets \in SwapFrameOutputs(frame_idx) : ReadFrameWith(dets)

NextSwap == ReadSwapFrame \/ Pass1 \/ Pass2Match \/ Pass2Update \/ Finish

\* The frame loop is sequential code: it keeps running until it ends.
SpecSwap == InitSwap /\ [][NextSwap]_vars /\ WF_vars(NextSwap)

\* ------------------------------------------------------------- vocabulary
\* The state at the end of a processed frame (frame_idx - 1).
FrameEnd == pc \in {"read", "done"} /\ frame_idx > 0

LastFrame == frame_idx - 1

MatchedIn(p, f) == f \in DOMAIN player_states[p].frames

SeqRange(seq) == {seq[k] : k \in 1..Len(seq)}

\* Player p recorded detection k of the current detection list as frames[f].
RecordedFrom(p, k, f) ==
    /\ MatchedIn(p, f)
    /\ player_states[p].frames[f]
           \in {detections[k].bbox, IntBox(detections[k].bbox)}

SetMax(S) == CHOOSE m \in S : \A x \in S : x <= m
SetMin(S) == CHOOSE m \in S : \A x \in S : m <= x

\* The last frame in which player p was matched, -1 if there is none.
LastMatch(p) ==
    IF DOMAIN player_states[p].frames = {} THEN -1
    ELSE SetMax(DOMAIN player_states[p].frames)

\* Number of processed frames at or after the selection frame since the
\* player's last match.
UnmatchedRun(p) ==
    Cardinality({f \in 0..(frame_idx - 1) :
                    f >= selection_frame_idx /\ f > LastMatch(p)})

\* Player p has a reference histogram and no track id.
Lost(p) ==
    /\ player_states[p].current_track_id = None
    /\ player_states[p].reference_histogram # << >>

\* Player p has no reference histogram and no track id.
Uninitialized(p) ==
    /\ player_states[p].current_track_id = None
    /\ player_states[p].reference_histogram = << >>

\* ------------------------------------------------------------------ claims

\* C1: at the end of every processed frame no two distinct players hold the
\* same non-null current_track_id, and no detection of that frame is recorded
\* as frames[f] for two distinct players.
C1_AssignmentExclusivity ==
    FrameEnd =>
        \A i, j \in Players :
            i < j =>
                /\ ~ ( /\ player_states[i].current_track_id # None
                       /\ player_states[i].current_track_id
                              = player_states[j].current_track_id )
                /\ \A k \in 1..Len(detections) :
                       ~ (RecordedFrom(i, k, LastFrame)
                          /\ RecordedFrom(j, k, LastFrame))

\* C2: at the end of every processed frame, each player's frames_lost equals
\* the number of consecutive frames (at or after the selection frame) without
\* a match since the player's last match, i.e. it grows by exactly 1 per
\* unmatched frame.
C2_FramesLostCountsUnmatched ==
    FrameEnd =>
        \A p \in Players : player_states[p].frames_lost = UnmatchedRun(p)

\* C3: for every player and every processed frame f >= selection_frame, f is
\* in missing_frames if and only if f is not a key of frames, whether or not
\* the reference histogram has been initialized.
C3_MissingIffUnmatched ==
    FrameEnd =>
        \A p \in Players :
            \A f \in selection_frame_idx..(frame_idx - 1) :
                (f \in SeqRange(player_states[p].missing_frames))
                    <=> ~MatchedIn(p, f)

\* Detection k of the current frame is already claimed: its track id is in
\* assigned_track_ids, or another player recorded it in this frame.
DetectionClaimed(k) ==
    \/ /\ detections[k].track_id # None
       /\ detections[k].track_id \in assigned_track_ids
    \/ \E p \in Players \ {Cur} : RecordedFrom(p, k, frame_idx)

\* C5: the bootstrap branch never selects a detection that is already claimed
\* in the current frame.
C5_BootstrapOnlyUnclaimed ==
    (pc = "bootstrap" /\ match_idx # None) => ~DetectionClaimed(match_idx)

\* C6: hybrid_rematch never returns a detection whose track_id is already in
\* assigned_track_ids.
C6_RematchNotClaimed ==
    (pc = "hybrid" /\ rematch.track_id # None)
        => rematch.track_id \notin assigned_track_ids

\* Twice the centre of a box, in 1/CoordDen pixels.
CenterX2(b) == b.x1 + b.x2
CenterY2(b) == b.y1 + b.y2

\* (2 * distance)^2 between the centres of two boxes, exactly.
Distance2x4(a, b) ==
    (CenterX2(a) - CenterX2(b)) * (CenterX2(a) - CenterX2(b))
  + (CenterY2(a) - CenterY2(b)) * (CenterY2(a) - CenterY2(b))

\* C6 witness: a re-match succeeded in a frame where a detection within the
\* search radius was already claimed.
C6_Witness ==
    /\ pc = "hybrid"
    /\ rematch.track_id # None
    /\ \E k \in 1..Len(detections) :
          /\ detections[k].track_id \in assigned_track_ids
          /\ Distance2x4(detections[k].bbox, player_states[Cur].last_bbox)
                 <= 4 * CoordDen * CoordDen
                      * (base_speed * player_states[Cur].frames_lost)
                      * (base_speed * player_states[Cur].frames_lost)

\* C7: the candidate returned by hybrid_rematch is never farther from the
\* centre of last_bbox than R = min(base_speed * frames_lost,
\* max_distance_cap), hence never farther than max_distance_cap.
C7_RematchWithinRadius ==
    (pc = "hybrid" /\ rematch.track_id # None) =>
        LET state == player_states[Cur]
            d2x4 == Distance2x4(rematch.bbox, state.last_bbox)
            r == CoordDen * Min(base_speed * state.frames_lost, max_distance_cap)
            c == CoordDen * max_distance_cap
        IN /\ d2x4 <= 4 * r * r
           /\ d2x4 <= 4 * c * c

\* C7 witness: a re-match succeeded while the cap, not base_speed *
\* frames_lost, was the search radius.
C7_Witness ==
    /\ pc = "hybrid"
    /\ rematch.track_id # None
    /\ base_speed * player_states[Cur].frames_lost > max_distance_cap
    /\ rematch.bbox # player_states[Cur].last_bbox

\* C8: every bootstrap step of a frame precedes every hybrid step
\* of that frame, i.e. when a hybrid step runs no later player is still
\* waiting for its bootstrap step.
C8_BootstrapBeforeHybrid ==
    pc = "hybrid" =>
        \A k \in (idx + 1)..Len(player_states) :
            ~Uninitialized(PlayerOrder(k, Len(player_states)))

\* frames_lost of player p as it was when hybrid_rematch was called for p in
\* the current frame (a failed re-match at or after the selection frame has
\* since added 1 and recorded the frame as missing).
CallFramesLost(p) ==
    IF frame_idx \in SeqRange(player_states[p].missing_frames)
    THEN player_states[p].frames_lost - 1
    ELSE player_states[p].frames_lost

\* What hybrid_rematch can return for player p in the current frame when
\* the track ids in assigned are claimed.
WouldRematch(p, fl, assigned) ==
    hybrid_rematch(player_states[p].last_bbox,
                   player_states[p].reference_histogram, fl, detections,
                   assigned, base_speed, max_distance_cap,
                   similarity_threshold)

\* C9: when a player obtains a detection in the hybrid branch, no lost player
\* earlier in selection order would have accepted that detection (the earlier
\* player would have obtained it), and no earlier player holds it.
C9_EarlierPlayerWins ==
    (pc = "hybrid" /\ rematch.track_id # None) =>
        \A i \in 1..(Cur - 1) :
            /\ player_states[i].current_track_id # rematch.track_id
            /\ (Lost(i) /\ ~MatchedIn(i, frame_idx))
                  => \A r \in WouldRematch(i, CallFramesLost(i),
                                           assigned_track_ids) :
                         r.track_id # rematch.track_id

\* C9 witness: two players were lost, the earlier one re-matched detection t
\* in this frame, and the later one would have accepted t had it been
\* unclaimed, but does not obtain it.
C9_Witness ==
    /\ pc = "hybrid"
    /\ \E i \in 1..(Cur - 1) :
          LET t == player_states[i].current_track_id
          IN /\ t # None
             /\ MatchedIn(i, frame_idx)
             /\ ~MatchedIn(i, frame_idx - 1)
             /\ \E f \in 0..(frame_idx - 1) : MatchedIn(i, f)
             /\ \A r \in WouldRematch(Cur, player_states[Cur].frames_lost,
                                      assigned_track_ids \ {t}) :
                    r.track_id = t
             /\ rematch.track_id # t

\* C10: after a frame in which a player was matched by any pass, the
\* player's frames_lost is 0.
C10_MatchedMeansNotLost ==
    FrameEnd =>
        \A p \in Players :
            MatchedIn(p, LastFrame) => player_states[p].frames_lost = 0

\* C10 witness: a frame ends in which a player was re-matched by the hybrid
\* branch after an unmatched frame.
C10_Witness ==
    /\ FrameEnd
    /\ frame_idx >= 3
    /\ \E p \in Players :
          /\ MatchedIn(p, LastFrame)
          /\ ~MatchedIn(p, LastFrame - 1)
          /\ MatchedIn(p, LastFrame - 2)
          /\ player_states[p].frames_lost = 0


\* Every processed frame is a key of player p's frames.
NoGap(p) == \A f \in 0..(frame_idx - 1) : MatchedIn(p, f)

\* C4: in the ID-swap scenario frames_lost of both players rises
\* above 0 at some point, and the run ends with frames_lost back at 0 and no
\* gap in either player's frames.
C4_SwapRisesAndRecovers ==
    /\ <>(player_states[1].frames_lost > 0)
    /\ <>(player_states[2].frames_lost > 0)
    /\ <>[](/\ pc = "done"
            /\ \A p \in Players :
                  player_states[p].frames_lost = 0 /\ NoGap(p))

\* Width and height of a bbox.
BoxWidth(b) == b.x2 - b.x1
BoxHeight(b) == b.y2 - b.y1

\* C11: for every player max_bbox.width and max_bbox.height never decrease
\* from one step of the run to the next, and after any match each is at least
\* the width (height) of every bbox recorded so far, the one just recorded
\* included.
C11_MaxBboxMonotone ==
    [][\A p \in Players :
          /\ player_states'[p].max_bbox.width >= player_states[p].max_bbox.width
          /\ player_states'[p].max_bbox.height
                 >= player_states[p].max_bbox.height
          /\ \A f \in DOMAIN player_states'[p].frames :
                /\ player_states'[p].max_bbox.width
                       >= BoxWidth(player_states'[p].frames[f])
                /\ player_states'[p].max_bbox.height
                       >= BoxHeight(player_states'[p].frames[f])]_vars

\* C11 witness: a player was matched to a box smaller than an earlier one, and
\* max_bbox still holds the earlier, larger size.
C11_Witness ==
    /\ FrameEnd
    /\ \E p \in Players :
          /\ MatchedIn(p, LastFrame)
          /\ BoxWidth(player_states[p].frames[LastFrame])
                 < player_states[p].max_bbox.width
          /\ BoxHeight(player_states[p].frames[LastFrame])
                 < player_states[p].max_bbox.height
          /\ \E f \in DOMAIN player_states[p].frames :
                /\ f < LastFrame
                /\ BoxWidth(player_states[p].frames[f])
                       = player_states[p].max_bbox.width

\* C12: a selection with no players is rejected before any frame is read: no
\* frame is processed and the run never completes with a tracking output.
C12_EmptySelectionRejected ==
    Len(player_states) = 0 => (frame_idx = 0 /\ pc # "done")

\* The frames of the stream that cannot be read or make the detector raise.
FaultyFrames == {unreadable_frame, detector_error_frame} \ {None}

\* The number of frames the run is to process: the stream's length, capped by
\* max_frames when it is given.
FramesToProcess ==
    IF max_frames = None THEN video_frames ELSE Min(video_frames, max_frames)

\* C13: a frame whose read or detection fails never ends or aborts the run:
\* the run does not leave with an exception, it ends only after every faulty
\* frame below the frame limit has been passed, and no player is matched in
\* a faulty frame (it counts as a frame with zero detections).
C13_FaultyFrameSkipped ==
    /\ pc # "raised"
    /\ pc = "done" =>
          \A f \in FaultyFrames : f < FramesToProcess => frame_idx > f
    /\ \A f \in FaultyFrames : \A p \in Players : ~MatchedIn(p, f)

\* C14: the run ends only by stream exhaustion or the frame cap: it never
\* processes more than min(stream length, max_frames) frames (the stream
\* length when max_frames is not given), and when it has ended it has
\* returned normally after processing exactly that many frames, 0, 1, 2, ...
C14_EndsAtStreamEndOrCap ==
    /\ frame_idx <= FramesToProcess
    /\ pc \in {"done", "raised"} =>
          (pc = "done" /\ frame_idx = FramesToProcess)

\* person_tracker.calculate_output_size on a max_bbox held in 1/CoordDen
\* pixels: ceil(v * 1.2), plus one when odd; in whole pixels.
PaddedCeilEven(v) ==
    LET d == padding[2] * CoordDen
        c == (v * padding[1] + d - 1) \div d
    IN IF c % 2 # 0 THEN c + 1 ELSE c

calculate_output_size(max_bbox) ==
    [width |-> PaddedCeilEven(max_bbox.width),
     height |-> PaddedCeilEven(max_bbox.height)]

\* C15: in the results, with no fixed size every player's output_size is
\* ceil(max_bbox * 1.2) rounded up to the next even integer in both
\* dimensions (so even and at least 1.2 times max_bbox); with a fixed size it
\* is exactly that size.
C15_OutputSizePaddedEven ==
    pc = "done" =>
        \A p \in Players :
            tracking_results[p].output_size
                = IF fixed_output_size = << >>
                  THEN calculate_output_size(player_states[p].max_bbox)
                  ELSE [width |-> fixed_output_size[1],
                        height |-> fixed_output_size[2]]

\* C16: the bootstrap branch honours the caller's iou_threshold: when its
\* matching call has returned, a detection was accepted if and only if some
\* detection overlaps the player's last_bbox with IOU >= iou_threshold, and
\* the accepted detection has IOU >= iou_threshold.
C16_BootstrapHonoursIouThreshold ==
    pc = "bootstrap" =>
        LET last == player_states[Cur].last_bbox
        IN /\ (match_idx # None)
                <=> \E k \in 1..Len(detections) :
                       FracGe(calculate_iou(last, detections[k].bbox),
                              iou_threshold)
           /\ match_idx # None =>
                 FracGe(calculate_iou(last, detections[match_idx].bbox),
                        iou_threshold)

\* C20: for each player the keys of frames are added in strictly increasing
\* frame order: a step either leaves the player's frames alone or adds one
\* entry, for the frame being processed, whose key is new and larger than
\* every existing key; no existing entry is overwritten or removed.
C20_FrameHistoryAppendOnly ==
    [][\A p \in Players :
          LET old == player_states[p].frames
              new == player_states'[p].frames
          IN \/ new = old
             \/ /\ frame_idx \notin DOMAIN old
                /\ DOMAIN new = DOMAIN old \cup {frame_idx}
                /\ \A f \in DOMAIN old : f < frame_idx /\ new[f] = old[f]]_vars

\* C20 witness: a frame ends in which a player got an entry for that frame
\* on top of entries of earlier frames, one of them right before a gap.
C20_Witness ==
    /\ FrameEnd
    /\ \E p \in Players :
          /\ MatchedIn(p, LastFrame)
          /\ ~MatchedIn(p, LastFrame - 1)
          /\ \E f \in DOMAIN player_states[p].frames : f < LastFrame - 1


\* ------------------------------------------- video_cropper: frame functions
\* int(x) of a float held in 1/CoordDen pixels, in whole pixels.
IntPx(c) == IF c >= 0 THEN c \div CoordDen ELSE 0 - ((0 - c) \div CoordDen)

\* The source frame: shape (rows, columns); the pixel at row r, column c has
\* a value of its own, none of them black.
FramePixel(frame_shape, r, c) == r * frame_shape[2] + c + 1

\* crop_x1 (crop_y1): the bbox centre minus half the output extent.
CropOrigin(lo, hi, out) == (IntPx(lo) + IntPx(hi)) \div 2 - out \div 2

\* src_x1, src_x2 (src_y1, src_y2): the crop region clipped to the frame.
SrcStart(crop1) == Max(0, crop1)
SrcEnd(crop1, out, limit) == Min(limit, crop1 + out)

\* Variant of DstStart that copies to the canvas origin.
DstStartZero(src1, crop1) == 0

\* dst_x1 (dst_y1): where the clipped region starts in the canvas.
DstStart(src1, crop1) == src1 - crop1

\* crop_and_pad_frame: a black canvas, and the slice assignment
\* output_frame[dst_y1:dst_y2, dst_x1:dst_x2] = frame[src_y1:src_y2,
\* src_x1:src_x2] when the clipped region is not empty.
crop_and_pad_frame(frame_shape, bbox, output_size) ==
    LET frame_h == frame_shape[1]
        frame_w == frame_shape[2]
        out_w == output_size.width
        out_h == output_size.height
        crop_x1 == CropOrigin(bbox.x1, bbox.x2, out_w)
        crop_y1 == CropOrigin(bbox.y1, bbox.y2, out_h)
        src_x1 == SrcStart(crop_x1)
        src_y1 == SrcStart(crop_y1)
        src_x2 == SrcEnd(crop_x1, out_w, frame_w)
        src_y2 == SrcEnd(crop_y1, out_h, frame_h)
        dst_x1 == DstStart(src_x1, crop_x1)
        dst_y1 == DstStart(src_y1, crop_y1)
        dst_x2 == dst_x1 + (src_x2 - src_x1)
        dst_y2 == dst_y1 + (src_y2 - src_y1)
        output_frame == Zeros(out_h, out_w)
    IN [output_frame EXCEPT
          !.px = [q \in DOMAIN @ |->
                    IF /\ src_x2 > src_x1 /\ src_y2 > src_y1
                       /\ dst_y1 <= q[1] /\ q[1] < dst_y2
                       /\ dst_x1 <= q[2] /\ q[2] < dst_x2
                    THEN FramePixel(frame_shape, src_y1 + (q[1] - dst_y1),
                                    src_x1 + (q[2] - dst_x1))
                    ELSE @[q]]]

\* create_black_frame: np.zeros of the output size.
create_black_frame(output_size) ==
    Zeros(output_size.height, output_size.width)

\* Inputs: frame shapes, bbox coordinates (1/CoordDen pixels) and output
\* sizes (pixels).
CropFrameShapes == {<<3, 4>>, <<2, 2>>}
CropXs == {-3, 0, 3, 6, 9}
CropYs == {0, 3, 7}
CropOutputWidths == {0, 2, 3, 6}
CropOutputHeights == {0, 1, 4}

CropBoxes ==
    {bb \in {Box(a, b, c, d) : a \in CropXs, b \in CropYs,
                               c \in CropXs, d \in CropYs} :
        bb.x1 <= bb.x2 /\ bb.y1 <= bb.y2}

\* No run of the tracker: no players, no frames.
TrackerIdle ==
    InitWith(<< >>, 0, DefaultArgs,
             [frames |-> 0, unreadable |-> None, detector_error |-> None])

InitCrop ==
    /\ \E shape \in CropFrameShapes, bbox \in CropBoxes,
          w \in CropOutputWidths, h \in CropOutputHeights :
           crop_call = [NoCropCall EXCEPT
                          !.frame_shape = shape, !.bbox = bbox,
                          !.output_size = [width |-> w, height |-> h]]
    /\ TrackerIdle
    /\ selector = NoSelector
    /\ named_cropper = NoNamedCropper
    /\ pipeline = NoPipeline
    /\ function_call = NoFunctionCall

CropAndPadFrame ==
    /\ crop_call.op = "none"
    /\ crop_call' =
         [crop_call EXCEPT
            !.op = "crop_and_pad_frame",
            !.output_frame = crop_and_pad_frame(crop_call.frame_shape,
                                                crop_call.bbox,
                                                crop_call.output_size)]
    /\ UNCHANGED <<tracker_vars, selector, named_cropper, pipeline, function_call>>

CreateBlackFrame ==
    /\ crop_call.op = "none"
    /\ crop_call' =
         [crop_call EXCEPT
            !.op = "create_black_frame",
            !.output_frame = create_black_frame(crop_call.output_size)]
    /\ UNCHANGED <<tracker_vars, selector, named_cropper, pipeline, function_call>>

NextCrop == CropAndPadFrame \/ CreateBlackFrame

SpecCrop == InitCrop /\ [][NextCrop]_vars

\* Row r, column c lies inside a frame of the given shape.
InsideFrame(frame_shape, r, c) ==
    /\ 0 <= r /\ r < frame_shape[1]
    /\ 0 <= c /\ c < frame_shape[2]

\* C17: crop_and_pad_frame returns a canvas of exactly output_size.height
\* rows and output_size.width columns, centred on the bbox centre: canvas
\* pixel (i, j) is source pixel (crop_y1 + i, crop_x1 + j) when that lies
\* inside the frame and black otherwise; the copied destination rectangle
\* lies inside the canvas and has the dimensions of the source rectangle;
\* create_black_frame returns an all-black canvas of exactly output_size.
C17_CropCanvas ==
    LET shape == crop_call.frame_shape
        out_w == crop_call.output_size.width
        out_h == crop_call.output_size.height
        image == crop_call.output_frame
        center_x == (IntPx(crop_call.bbox.x1) + IntPx(crop_call.bbox.x2)) \div 2
        center_y == (IntPx(crop_call.bbox.y1) + IntPx(crop_call.bbox.y2)) \div 2
        crop_x1 == center_x - out_w \div 2
        crop_y1 == center_y - out_h \div 2
        Copied == {q \in DOMAIN image.px : image.px[q] # 0}
    IN /\ crop_call.op = "crop_and_pad_frame" =>
             /\ image.shape = <<out_h, out_w>>
             /\ DOMAIN image.px = Canvas(out_h, out_w)
             /\ \A q \in Canvas(out_h, out_w) :
                   image.px[q] =
                       IF InsideFrame(shape, crop_y1 + q[1], crop_x1 + q[2])
                       THEN FramePixel(shape, crop_y1 + q[1], crop_x1 + q[2])
                       ELSE 0
             /\ \A q, r \in Copied :
                   /\ <<q[1], r[2]>> \in Copied
                   /\ image.px[r] - image.px[q]
                        = (r[1] - q[1]) * shape[2] + (r[2] - q[2])
       /\ crop_call.op = "create_black_frame" =>
             /\ image.shape = <<out_h, out_w>>
             /\ DOMAIN image.px = Canvas(out_h, out_w)
             /\ \A q \in Canvas(out_h, out_w) : image.px[q] = 0

\* C17 witness: a crop whose region sticks out of the frame on the left and
\* at the bottom, so the canvas holds both copied and black pixels.
C17_Witness ==
    /\ crop_call.op = "crop_and_pad_frame"
    /\ CropOrigin(crop_call.bbox.x1, crop_call.bbox.x2,
                  crop_call.output_size.width) < 0
    /\ CropOrigin(crop_call.bbox.y1, crop_call.bbox.y2,
                  crop_call.output_size.height)
          + crop_call.output_size.height > crop_call.frame_shape[1]
    /\ \E q, r \in DOMAIN crop_call.output_frame.px :
          /\ crop_call.output_frame.px[q] = 0
          /\ crop_call.output_frame.px[r] # 0


\* ------------------------------ named_video_cropper: crop_named_player_videos
\* The frames of the source video all have this shape.
NamedFrameShape == <<2, 2>>

\* track_data["frames"] of a player present in the frames of set S, and the
\* player's output_size.
TrackFrames(S) == [f \in S |-> Box(Px(0), Px(0), Px(1), Px(2))]
NamedOutputSize == [width |-> 2, height |-> 2]

\* The tracking data of two players over up to MaxFrames frames.
NamedTracks ==
    {<< [frames |-> TrackFrames(S1), output_size |-> NamedOutputSize],
        [frames |-> TrackFrames(S2), output_size |-> NamedOutputSize] >> :
        S1 \in SUBSET (0..(MaxFrames - 1)), S2 \in SUBSET (0..(MaxFrames - 1))}

\* The state at "Process each frame": one writer per track, nothing written.
InitNamed ==
    /\ \E tracks \in NamedTracks, total \in 0..MaxFrames,
          nframes \in 0..MaxFrames, black \in BOOLEAN :
           named_cropper =
               [total_frames |-> total, video_frames |-> nframes,
                tracks |-> tracks, include_black_frames |-> black,
                frame_idx |-> 0,
                writers |-> [t \in 1..Len(tracks) |-> << >>],
                pc |-> "loop"]
    /\ TrackerIdle
    /\ selector = NoSelector
    /\ crop_call = NoCropCall
    /\ pipeline = NoPipeline
    /\ function_call = NoFunctionCall

\* The body of the loop over the writers for source frame f: what the
\* player's writer holds afterwards.
WriteFrame(written, track_data, f, black) ==
    IF f \in DOMAIN track_data.frames
    THEN Append(written,
                [frame |-> f,
                 image |-> crop_and_pad_frame(NamedFrameShape,
                                              track_data.frames[f],
                                              track_data.output_size)])
    ELSE IF black
    THEN Append(written,
                [frame |-> f,
                 image |-> create_black_frame(track_data.output_size)])
    ELSE written

\* One iteration of "while True": cap.read() delivers a frame, every writer
\* is served, frame_idx += 1, and the loop is left when frame_idx has
\* reached total_frames.
NamedCropFrame ==
    /\ named_cropper.pc = "loop"
    /\ named_cropper.frame_idx < named_cropper.video_frames
    /\ named_cropper' =
         [named_cropper EXCEPT
            !.writers =
                [t \in DOMAIN @ |->
                    WriteFrame(@[t], named_cropper.tracks[t],
                               named_cropper.frame_idx,
                               named_cropper.include_black_frames)],
            !.frame_idx = @ + 1,
            !.pc = IF named_cropper.frame_idx + 1
                        >= named_cropper.total_frames
                   THEN "break" ELSE "loop"]
    /\ UNCHANGED <<tracker_vars, selector, crop_call, pipeline, function_call>>

\* The loop is left (cap.read() fails, or the break): the writers are
\* released and the files returned.
NamedRelease ==
    /\ named_cropper.pc \in {"loop", "break"}
    /\ named_cropper.pc = "loop" =>
          named_cropper.frame_idx >= named_cropper.video_frames
    /\ named_cropper' = [named_cropper EXCEPT !.pc = "done"]
    /\ UNCHANGED <<tracker_vars, selector, crop_call, pipeline, function_call>>

NextNamed == NamedCropFrame \/ NamedRelease

SpecNamed == InitNamed /\ [][NextNamed]_vars

\* ---------------------------------- track_player: run_interactive_tracking
\* Optional paths: "" stands for None (and the empty string), both false in
\* a condition.
Truthy(path) == path # ""

PipelinePaths == {"", "given.json"}
\* Strings that are read character by character are sequences of
\* one-character strings.
DecimalDigits == <<"0", "1", "2", "3", "4", "5", "6", "7", "8", "9">>
LowerLetters ==
    <<"a", "b", "c", "d", "e", "f", "g", "h", "i", "j", "k", "l", "m",
      "n", "o", "p", "q", "r", "s", "t", "u", "v", "w", "x", "y", "z">>
UpperLetters ==
    <<"A", "B", "C", "D", "E", "F", "G", "H", "I", "J", "K", "L", "M",
      "N", "O", "P", "Q", "R", "S", "T", "U", "V", "W", "X", "Y", "Z">>

\* c.lower() of an ASCII character.
lower(c) ==
    IF \E k \in 1..Len(UpperLetters) : UpperLetters[k] = c
    THEN LowerLetters[CHOOSE k \in 1..Len(UpperLetters) : UpperLetters[k] = c]
    ELSE c

PipelineModes ==
    { <<"t", "e", "r", "m", "i", "n", "a", "l">>, <<"g", "u", "i">>, <<"G", "U", "I">>, <<"G", "u", "i">>, <<"T", "E", "R", "M", "I", "N", "A", "L">> }

\* mode.lower()
Lower(mode) == [k \in 1..Len(mode) |-> lower(mode[k])]

\* What a selector returns: None, or the selection dict.
SelectionResults == {"None", "dict"}

\* What crop_named_player_videos returns.
VideoPathLists == {<< >>, <<"a.mp4">>, <<"a.mp4", "b.mp4">>}

\* A call returns, or raises an exception that run_interactive_tracking does
\* not catch.
CallOutcomes == {"returns", "raises"}

\* Variant of SelectionFailed that carries on whatever the selector returned.
SelectionFailedNever(selection_result) == FALSE

\* "if not selection_result": the selection was cancelled or failed.
SelectionFailed(selection_result) == selection_result = "None"

\* The selector the mode chooses.
Selector(mode) ==
    IF Lower(mode) = <<"g", "u", "i">> THEN "select_players_gui"
    ELSE "select_players_terminal"

InitPipeline ==
    /\ \E sel \in PipelinePaths, trk \in PipelinePaths,
          mode \in PipelineModes, black \in BOOLEAN :
           pipeline =
               [selected_players_path |-> sel, tracking_data_path |-> trk,
                mode |-> mode, include_black_frames |-> black,
                final_selection_path |-> "", final_tracking_path |-> "",
                selection_result |-> "unset", calls |-> << >>,
                result |-> << >>, pc |-> "step1"]
    /\ TrackerIdle
    /\ selector = NoSelector
    /\ crop_call = NoCropCall
    /\ named_cropper = NoNamedCropper
    /\ function_call = NoFunctionCall

\* An entry of the call log.
Call(fn, path, black) == [fn |-> fn, path |-> path, include_black_frames |-> black]

\* Step 1: player selection, or its skipping.
PipelineSelection ==
    /\ pipeline.pc = "step1"
    /\ IF Truthy(pipeline.tracking_data_path)
       THEN pipeline' =
                [pipeline EXCEPT
                   !.final_tracking_path = pipeline.tracking_data_path,
                   !.pc = "step2"]
       ELSE IF Truthy(pipeline.selected_players_path)
       THEN pipeline' =
                [pipeline EXCEPT
                   !.final_selection_path = pipeline.selected_players_path,
                   !.pc = "step2"]
       ELSE \E outcome \in CallOutcomes, r \in SelectionResults :
                pipeline' =
                    [pipeline EXCEPT
                       !.final_selection_path = "selected_players.json",
                       !.calls = Append(@, Call(Selector(pipeline.mode),
                                                "selected_players.json",
                                                FALSE)),
                       !.selection_result =
                           IF outcome = "raises" THEN @ ELSE r,
                       !.pc = IF outcome = "raises" THEN "raised"
                              ELSE IF SelectionFailed(r) THEN "returned"
                              ELSE "step2"]
    /\ UNCHANGED <<tracker_vars, selector, crop_call, named_cropper, function_call>>

\* Step 2: selective tracking, or its skipping.
PipelineTracking ==
    /\ pipeline.pc = "step2"
    /\ IF Truthy(pipeline.tracking_data_path)
       THEN pipeline' =
                [pipeline EXCEPT
                   !.final_tracking_path = pipeline.tracking_data_path,
                   !.pc = "step3"]
       ELSE \E outcome \in CallOutcomes :
                pipeline' =
                    [pipeline EXCEPT
                       !.final_tracking_path = "selective_tracking_data.json",
                       !.calls = Append(@, Call("run_selective_tracking",
                                                pipeline.final_selection_path,
                                                FALSE)),
                       !.pc = IF outcome = "raises" THEN "raised"
                              ELSE "step3"]
    /\ UNCHANGED <<tracker_vars, selector, crop_call, named_cropper, function_call>>

\* Step 3: video cropping and the return of its result.
PipelineCropping ==
    /\ pipeline.pc = "step3"
    /\ \E outcome \in CallOutcomes, video_paths \in VideoPathLists :
          pipeline' =
              [pipeline EXCEPT
                 !.calls = Append(@, Call("crop_named_player_videos",
                                          pipeline.final_tracking_path,
                                          pipeline.include_black_frames)),
                 !.result = IF outcome = "raises" THEN @ ELSE video_paths,
                 !.pc = IF outcome = "raises" THEN "raised" ELSE "returned"]
    /\ UNCHANGED <<tracker_vars, selector, crop_call, named_cropper, function_call>>

NextPipeline == PipelineSelection \/ PipelineTracking \/ PipelineCropping

SpecPipeline == InitPipeline /\ [][NextPipeline]_vars

\* C18: with include_black_frames true, every writer has received exactly
\* one image per source frame processed, in frame order (the crop when the
\* frame index is in the player's frames, a black frame otherwise), so all
\* clips have the same length, the number of frames processed, and that
\* number never exceeds video_info.total_frames.
C18_OneImagePerFrame ==
    named_cropper.include_black_frames =>
        /\ named_cropper.frame_idx <= named_cropper.total_frames
        /\ \A t \in DOMAIN named_cropper.writers :
              LET written == named_cropper.writers[t]
                  track_data == named_cropper.tracks[t]
              IN /\ Len(written) = named_cropper.frame_idx
                 /\ \A k \in 1..Len(written) :
                       /\ written[k].frame = k - 1
                       /\ written[k].image =
                             IF k - 1 \in DOMAIN track_data.frames
                             THEN crop_and_pad_frame(NamedFrameShape,
                                                     track_data.frames[k - 1],
                                                     track_data.output_size)
                             ELSE create_black_frame(track_data.output_size)

\* The number of calls of fn in the call log.
Calls(fn) ==
    Cardinality({k \in 1..Len(pipeline.calls) : pipeline.calls[k].fn = fn})

\* The number of calls of a selector.
SelectorCalls ==
    Calls("select_players_gui") + Calls("select_players_terminal")

\* The call log runs through the phases in order, each at most once.
PhasesInOrder ==
    /\ SelectorCalls <= 1
    /\ Calls("run_selective_tracking") <= 1
    /\ Calls("crop_named_player_videos") <= 1
    /\ \A j, k \in 1..Len(pipeline.calls) :
          j < k =>
              /\ pipeline.calls[k].fn
                    \notin {"select_players_gui", "select_players_terminal"}
              /\ pipeline.calls[j].fn # "crop_named_player_videos"

\* C19 as stated: when run_interactive_tracking has returned, the phases
\* ran in order, selection ran iff neither path was supplied, tracking ran
\* iff tracking_data_path was not supplied, and cropping ran exactly once.
C19_PhasesRunAsStated ==
    pipeline.pc = "returned" =>
        /\ PhasesInOrder
        /\ SelectorCalls = 1
              <=> (~Truthy(pipeline.selected_players_path)
                   /\ ~Truthy(pipeline.tracking_data_path))
        /\ Calls("run_selective_tracking") = 1
              <=> ~Truthy(pipeline.tracking_data_path)
        /\ Calls("crop_named_player_videos") = 1

\* C19 amended: the phases run in order, each at most once; once step 1 is
\* over, selection has run iff neither path was supplied; when the function
\* has returned after a selection that delivered nothing, it has returned
\* the empty list without tracking or cropping; when it has returned
\* otherwise, tracking has run iff tracking_data_path was not supplied, on
\* the selection file of step 1, and cropping has run exactly once, last, on
\* the tracking file of step 2, and its result is the result.
C19_PhasesUnlessCancelled ==
    /\ PhasesInOrder
    /\ pipeline.pc \notin {"idle", "step1"} =>
          (SelectorCalls = 1
              <=> (~Truthy(pipeline.selected_players_path)
                   /\ ~Truthy(pipeline.tracking_data_path)))
    /\ (pipeline.pc = "returned" /\ pipeline.selection_result = "None") =>
          /\ pipeline.result = << >>
          /\ Calls("run_selective_tracking") = 0
          /\ Calls("crop_named_player_videos") = 0
    /\ (pipeline.pc = "returned" /\ pipeline.selection_result # "None") =>
          /\ Calls("run_selective_tracking") = 1
                <=> ~Truthy(pipeline.tracking_data_path)
          /\ Calls("crop_named_player_videos") = 1
          /\ LET last == pipeline.calls[Len(pipeline.calls)]
             IN /\ last.fn = "crop_named_player_videos"
                /\ last.include_black_frames = pipeline.include_black_frames
                /\ last.path =
                      IF Truthy(pipeline.tracking_data_path)
                      THEN pipeline.tracking_data_path
                      ELSE "selective_tracking_data.json"
          /\ \A k \in 1..Len(pipeline.calls) :
                pipeline.calls[k].fn = "run_selective_tracking" =>
                    pipeline.calls[k].path =
                        IF Truthy(pipeline.selected_players_path)
                        THEN pipeline.selected_players_path
                        ELSE "selected_players.json"

\* C19 witness: the function has returned after a cancelled selection.
C19_Witness ==
    /\ pipeline.pc = "returned"
    /\ pipeline.selection_result = "None"
    /\ Len(pipeline.calls) = 1
    /\ pipeline.result = << >>


\* ------------------------------------------------- claims C21 and following
\* C21: once a player's reference_histogram is non-null, no step makes it
\* null again or changes its length, which is that of every extracted
\* histogram (bins_h + bins_s).
C21_ReferenceHistogramStays ==
    [][\A p \in Players :
          player_states[p].reference_histogram # << >> =>
              /\ player_states'[p].reference_histogram # << >>
              /\ Len(player_states'[p].reference_histogram)
                    = Len(player_states[p].reference_histogram)
              /\ Len(player_states'[p].reference_histogram)
                    = default_bins_h + default_bins_s]_vars

\* C21 witness: a player's reference histogram has gone through an EMA
\* update with a histogram different from it, and the player was lost and
\* re-matched since the bootstrap.
C21_Witness ==
    /\ FrameEnd
    /\ \E p \in Players :
          /\ player_states[p].reference_histogram \notin {<< >>, Red, Blue}
          /\ Len(player_states[p].reference_histogram)
                = default_bins_h + default_bins_s
          /\ MatchedIn(p, LastFrame)
          /\ \E f \in 0..(LastFrame - 1) : ~MatchedIn(p, f)
          /\ \E f \in 0..(LastFrame - 1) : MatchedIn(p, f)

\* The frame body is running: between the reset of assigned_track_ids and the
\* end of PASS 2.
InFrame == pc \in {"pass1", "pass2", "bootstrap", "hybrid"}

\* C22: assigned_track_ids is empty when the passes of a frame start, no step
\* inside a frame removes an id from it, and every id it holds while frame f
\* is processed was claimed in frame f itself (by a player matched in f),
\* so no claim of an earlier frame blocks a candidate.
C22_ClaimsPerFrame ==
    [][/\ (pc = "read" /\ pc' = "pass1") => assigned_track_ids' = {}
       /\ InFrame => assigned_track_ids \subseteq assigned_track_ids'
       /\ InFrame =>
             \A t \in assigned_track_ids :
                 \E p \in Players :
                     /\ MatchedIn(p, frame_idx)
                     /\ player_states[p].current_track_id = t]_vars

\* C22 witness: a frame after the first starts with an empty set although
\* the previous frame ended with a claim, and a lost player is offered a
\* detection carrying that id.
C22_Witness ==
    /\ pc = "pass2"
    /\ frame_idx >= 1
    /\ assigned_track_ids = {}
    /\ Lost(Cur)
    /\ \E p \in Players, k \in 1..Len(detections) :
          /\ p # Cur
          /\ MatchedIn(p, frame_idx - 1)
          /\ Lost(p)
          /\ detections[k].track_id # None
          /\ ~Claimed(detections[k], assigned_track_ids)

\* ------------------------------------------------- calculate_iou on its own
\* Largest coordinate of the rectangles handed to calculate_iou; the
\* smallest is -1.
IouCoordMax == 2

IouCoords == (-1)..IouCoordMax

\* Rectangles with x1 <= x2 and y1 <= y2 over the bounded coordinates.
IouBoxes ==
    {bb \in [x1 : IouCoords, y1 : IouCoords, x2 : IouCoords, y2 : IouCoords] :
        bb.x1 <= bb.x2 /\ bb.y1 <= bb.y2}

\* The rectangles of test_calculate_iou.
IouTestBox1 == Box(0, 0, 100, 100)
IouTestBox3 == Box(200, 200, 300, 300)
IouTestBox4 == Box(50, 50, 150, 150)

IouArguments ==
    (IouBoxes \X IouBoxes)
        \cup {<<IouTestBox1, IouTestBox1>>, <<IouTestBox1, IouTestBox3>>,
              <<IouTestBox1, IouTestBox4>>, <<IouTestBox4, IouTestBox1>>}

InitIou ==
    /\ \E a \in IouArguments :
           function_call = [NoFunctionCall EXCEPT !.arguments = a]
    /\ TrackerIdle
    /\ selector = NoSelector
    /\ crop_call = NoCropCall
    /\ named_cropper = NoNamedCropper
    /\ pipeline = NoPipeline

CalculateIou ==
    /\ function_call.function = "none"
    /\ function_call' =
         [function_call EXCEPT
            !.function = "calculate_iou",
            !.result = << calculate_iou(function_call.arguments[1],
                                        function_call.arguments[2]) >>]
    /\ UNCHANGED <<tracker_vars, selector, crop_call, named_cropper, pipeline>>

NextIou == CalculateIou

SpecIou == InitIou /\ [][NextIou]_vars

\* The unit squares a rectangle covers.
Cells(b) == {<<x, y>> : x \in b.x1..(b.x2 - 1), y \in b.y1..(b.y2 - 1)}

\* A rectangle with a positive width and a positive height.
WellFormed(b) == b.x1 < b.x2 /\ b.y1 < b.y2

\* C23: for rectangles with integer corners, calculate_iou is the area of
\* the intersection over the area of the union (counted in unit squares),
\* and 0 when the union is empty; it is 1 for a rectangle of positive area
\* against itself, 0 for rectangles that share no area (disjoint or touching
\* along an edge), and 2500/17500 for [0,0,100,100] and [50,50,150,150].
C23_IouIsIntersectionOverUnion ==
    function_call.function = "calculate_iou" =>
        LET a == function_call.arguments[1]
            b == function_call.arguments[2]
            iou == function_call.result[1]
            inter == Cardinality(Cells(a) \cap Cells(b))
            union == Cardinality(Cells(a) \cup Cells(b))
        IN /\ iou[2] > 0
           /\ IF union = 0 THEN iou[1] = 0
              ELSE iou[1] * union = inter * iou[2]
           /\ (a = b /\ WellFormed(a)) => iou[1] = iou[2]
           /\ inter = 0 => iou[1] = 0
           /\ (a = IouTestBox1 /\ b = IouTestBox4) => iou = <<2500, 17500>>

\* C23 witness: two different rectangles of positive area that overlap in
\* part, and the example of the unit test.
C23_Witness ==
    /\ function_call.function = "calculate_iou"
    /\ function_call.arguments[1] = IouTestBox1
    /\ function_call.arguments[2] = IouTestBox4
    /\ function_call.result[1][1] > 0
    /\ function_call.result[1][1] < function_call.result[1][2]

\* -------------------------------------- match_bbox_to_detections on its own
\* Longest detection list handed to match_bbox_to_detections.
MatchMaxLen == 2

MatchTargets == {Box(0, 0, 2, 2), Box(0, 0, 4, 2)}

\* Detections that cover the target in full, in part and not at all.
MatchDetections ==
    {Det(bb, None, Red) :
        bb \in {Box(0, 0, 2, 2), Box(0, 0, 2, 1), Box(1, 0, 3, 2),
                Box(0, 0, 1, 1), Box(5, 5, 6, 6)}}

MatchDetectionLists ==
    UNION {[1..n -> MatchDetections] : n \in 0..MatchMaxLen}

\* iou_threshold: the default 0.3, the values of the unit test's calls
\* (0.3, 0.8) and the ends of the range of an IOU.
MatchThresholds == {<<0, 10>>, <<3, 10>>, <<8, 10>>, <<10, 10>>}

InitMatch ==
    /\ \E target \in MatchTargets, dets \in MatchDetectionLists,
          threshold \in MatchThresholds :
           function_call = [NoFunctionCall EXCEPT
                              !.arguments = <<target, dets, threshold>>]
    /\ TrackerIdle
    /\ selector = NoSelector
    /\ crop_call = NoCropCall
    /\ named_cropper = NoNamedCropper
    /\ pipeline = NoPipeline

MatchBboxToDetections ==
    /\ function_call.function = "none"
    /\ function_call' =
         [function_call EXCEPT
            !.function = "match_bbox_to_detections",
            !.result = << match_bbox_to_detections(
                              function_call.arguments[1],
                              function_call.arguments[2],
                              function_call.arguments[3]) >>]
    /\ UNCHANGED <<tracker_vars, selector, crop_call, named_cropper, pipeline>>

NextMatch == MatchBboxToDetections

SpecMatch == InitMatch /\ [][NextMatch]_vars

\* The detections of dets whose IOU against target is at least threshold.
Qualifying(target, dets, threshold) ==
    {i \in 1..Len(dets) :
        FracGe(calculate_iou(target, dets[i].bbox), threshold)}

\* The lowest index among the detections of dets whose IOU against target
\* is the largest.
FirstOfMaxIou(target, dets) ==
    CHOOSE i \in 1..Len(dets) :
        /\ \A j \in 1..Len(dets) :
              FracGe(calculate_iou(target, dets[i].bbox),
                     calculate_iou(target, dets[j].bbox))
        /\ \A j \in 1..(i - 1) :
              FracGt(calculate_iou(target, dets[i].bbox),
                     calculate_iou(target, dets[j].bbox))

\* C24: match_bbox_to_detections returns None exactly when no detection has
\* an IOU of at least iou_threshold against the target, and otherwise the
\* lowest index among the detections of maximum IOU.
C24_MatchIsFirstOfMaxIou ==
    function_call.function = "match_bbox_to_detections" =>
        LET target == function_call.arguments[1]
            dets == function_call.arguments[2]
            threshold == function_call.arguments[3]
            best_idx == function_call.result[1]
        IN IF Qualifying(target, dets, threshold) = {}
           THEN best_idx = None
           ELSE best_idx = FirstOfMaxIou(target, dets)

\* ------------------------------------------ color_histogram: pixel functions
\* int(n / d) for d > 0: the fraction cut towards zero.
TruncDiv(n, d) == IF n >= 0 THEN n \div d ELSE 0 - ((0 - n) \div d)

\* A bound v of a slice of an axis of length n, as numpy reads it: a negative
\* bound counts from the end of the axis, and every bound is clamped to the
\* axis.
SliceIndex(v, n) == IF v < 0 THEN Max(0, v + n) ELSE Min(v, n)

\* The slice lo:hi of an axis of length n: <<start, stop>> with start <= stop;
\* the slice holds the indices start..stop-1.
Slice(lo, hi, n) ==
    <<SliceIndex(lo, n), Max(SliceIndex(lo, n), SliceIndex(hi, n))>>

\* crop_bbox_from_frame: the view frame[y1_p:y2_p, x1_p:x2_p], given by its
\* row and column ranges in the frame.  bbox is in 1/CoordDen pixels and
\* the padding ratio is ratio = <<num, den>>.
crop_bbox_from_frame(frame, bbox, ratio) ==
    LET h == frame.shape[1]
        w == frame.shape[2]
        bw == bbox.x2 - bbox.x1
        bh == bbox.y2 - bbox.y1
        den == ratio[2] * CoordDen
        x1_p == IF ratio[1] > 0
                THEN TruncDiv(Max(0, bbox.x1 * ratio[2] - bw * ratio[1]), den)
                ELSE IntPx(Max(0, bbox.x1))
        y1_p == IF ratio[1] > 0
                THEN TruncDiv(Max(0, bbox.y1 * ratio[2] - bh * ratio[1]), den)
                ELSE IntPx(Max(0, bbox.y1))
        x2_p == IF ratio[1] > 0
                THEN TruncDiv(Min(w * den, bbox.x2 * ratio[2] + bw * ratio[1]),
                              den)
                ELSE IntPx(Min(Px(w), bbox.x2))
        y2_p == IF ratio[1] > 0
                THEN TruncDiv(Min(h * den, bbox.y2 * ratio[2] + bh * ratio[1]),
                              den)
                ELSE IntPx(Min(Px(h), bbox.y2))
    IN [rows |-> Slice(y1_p, y2_p, h), cols |-> Slice(x1_p, x2_p, w)]

\* shape[:2] and size of a view.
ViewShape(view) ==
    <<view.rows[2] - view.rows[1], view.cols[2] - view.cols[1]>>

ViewSize(view) == ViewShape(view)[1] * ViewShape(view)[2]

\* cv2.cvtColor(..., COLOR_BGR2HSV) on the colours the frames are painted
\* with: <<H, S>> of a pixel (H in 0..179, S in 0..255).
BGR2HSV(colour) ==
    CASE colour = "blue" -> <<120, 255>>
      [] colour = "cyan" -> <<90, 255>>
      [] colour = "green" -> <<60, 255>>
      [] colour = "red" -> <<0, 255>>
      [] OTHER -> <<0, 0>>

\* The natural number a as an integer.
RECURSIVE NInt(_)
NInt(a) == IF Len(a) = 0 THEN 0 ELSE a[1] + LimbBase * NInt(Tail(a))

\* cvFloor(x) of a float x >= 0.
cvFloor(x) ==
    IF x.e >= 0 THEN x.s * NInt(NShl(x.m, x.e))
    ELSE x.s * NInt(NShr(x.m, 0 - x.e))

\* The bin cv2.calcHist puts a value of a channel with ranges [0, range] in
\* (1-based): it computes, in double, t = histSize / (high - low) and for
\* the value v the index cvFloor(v * t + -t * low), which can be one below
\* (v * histSize) \div range (v = 90 is in bin 12 of 26, counted from 0).
HistBin(value, bins, range) ==
    cvFloor(FMul(FOfInt(value), FDiv(FOfInt(bins), FOfInt(range), DoubleBits),
                 DoubleBits)) + 1

\* cv2.calcHist over the pixels of a region of the frame: the count of each
\* bin of one channel (1 is H over [0, 180), 2 is S over [0, 256)).
calcHist(frame, region, channel, bins) ==
    Val({ [b \in 1..bins |-> Cardinality({q \in region : bin[q] = b})] :
          bin \in {[q \in region |->
                       HistBin(BGR2HSV(frame.px[q])[channel], bins,
                               IF channel = 1 THEN 180 ELSE 256)] @@ << >>} })

\* np.clip(x, 0, 1) of one component.
clip(x) ==
    Val({ IF FLt(u, FZero) THEN FZero
          ELSE IF FGt(u, FOne) THEN FOne
          ELSE u : u \in {x} })

\* scale of cv2.normalize(hist, hist, 0, 1, NORM_MINMAX): with smin and smax
\* the least and the greatest count,
\*   (float) (smax - smin > DBL_EPSILON ? 1. / (smax - smin) : 0)
NormScale(smin, smax) ==
    IF smax > smin
    THEN FRound(FDiv(FOne, FOfInt(smax - smin), DoubleBits), SingleBits)
    ELSE FZero

\* shift = (float) 0 - (float) (smin * scale)
NormShift(smin, scale) ==
    FSub(FZero, FRound(FMul(FOfInt(smin), scale, DoubleBits), SingleBits),
         SingleBits)

\* count * scale + shift in float32, as convertTo computes it: by one fused
\* multiply-add, which rounds once, where the library is built with it (fma;
\* its AVX2 and NEON code), else with the product rounded before the sum (its
\* SSE2 code).  The two differ only when shift is not 0.
MulAdd(count, scale, shift, fma) ==
    IF fma
    THEN FRound(FSum(FMul(FOfInt(count), scale, DoubleBits), shift), SingleBits)
    ELSE FAdd(FMul(FOfInt(count), scale, SingleBits), shift, SingleBits)

\* cv2.normalize(hist, hist, 0, 1, NORM_MINMAX) followed by np.clip(hist, 0,
\* 1) on the counts of a histogram.
normalize(hist, fma) ==
    Val({ Val({ [b \in 1..Len(u) |-> clip(MulAdd(u[b], scale, shift, fma))]
                    \o << >> :
                shift \in {NormShift(SetMin(SeqRange(u)), scale)} }) :
          u \in {hist \o << >>},
          scale \in {NormScale(SetMin(SeqRange(hist)), SetMax(SeqRange(hist)))} })

\* extract_color_histogram on the pixels of a frame: the zero vector for an
\* empty crop, else the normalized H and S histograms of the centre region
\* of the crop, concatenated; fma tells how the library is built (MulAdd).
\* (int(cw * 0.2) and int(ch * 0.1) are cw \div 5 and ch \div 10: the doubles
\* 0.2 and 0.1 are above a fifth and a tenth, by too little for the product
\* to reach the next whole number.)
extract_color_histogram_of_frame(frame, bbox, bins_h, bins_s, fma) ==
    LET cropped == crop_bbox_from_frame(frame, bbox, <<0, 1>>)
        ch == ViewShape(cropped)[1]
        cw == ViewShape(cropped)[2]
        margin_x == cw \div 5
        margin_y == ch \div 10
        ys == Slice(margin_y, Max(margin_y + 1, ch - margin_y), ch)
        xs == Slice(margin_x, Max(margin_x + 1, cw - margin_x), cw)
        center_region ==
            ((cropped.rows[1] + ys[1])..(cropped.rows[1] + ys[2] - 1))
                \X ((cropped.cols[1] + xs[1])..(cropped.cols[1] + xs[2] - 1))
    IN IF ViewSize(cropped) = 0
       THEN [b \in 1..(bins_h + bins_s) |-> FZero]
       ELSE normalize(calcHist(frame, center_region, 1, bins_h), fma)
                \o normalize(calcHist(frame, center_region, 2, bins_s), fma)

\* Frames of two shapes (rows, columns), painted in one colour, in columns
\* of alternating colours, or red with the last column green.
HistFrameShapes == {<<3, 4>>, <<2, 2>>}

HistFrames ==
    {[shape |-> sh, px |-> [q \in Canvas(sh[1], sh[2]) |-> colour]] :
        sh \in HistFrameShapes, colour \in {"blue", "cyan"}}
    \cup {[shape |-> sh,
           px |-> [q \in Canvas(sh[1], sh[2]) |->
                      IF q[2] % 2 = 0 THEN "red" ELSE "white"]] :
            sh \in HistFrameShapes}
    \cup {[shape |-> sh,
           px |-> [q \in Canvas(sh[1], sh[2]) |->
                      IF q[2] = sh[2] - 1 THEN "green" ELSE "red"]] :
            sh \in HistFrameShapes}

\* bbox coordinates in 1/CoordDen pixels, whole and fractional, on both sides
\* of the frame.
HistCoords == {Px(-3), Px(-1), -1, 0, Px(1) + 1, Px(2), Px(5)}

HistBoxes ==
    {bb \in [x1 : HistCoords, y1 : HistCoords, x2 : HistCoords, y2 : HistCoords] :
        bb.x1 <= bb.x2 /\ bb.y1 <= bb.y2}

\* padding of crop_bbox_from_frame: the default and 10%.
HistPaddings == {<<0, 10>>, <<1, 10>>}

\* (bins_h, bins_s); of 26 hue bins cyan is in bin 12, counted from 0.
HistBins == {<<2, 2>>, <<3, 1>>, <<26, 1>>}

InitHistogram ==
    /\ \E frame \in HistFrames, bbox \in HistBoxes, ratio \in HistPaddings,
          bins \in HistBins, fma \in BOOLEAN :
           function_call =
               [NoFunctionCall EXCEPT
                  !.arguments = [frame |-> frame, bbox |-> bbox,
                                 padding |-> ratio, bins_h |-> bins[1],
                                 bins_s |-> bins[2], fma |-> fma]]
    /\ TrackerIdle
    /\ selector = NoSelector
    /\ crop_call = NoCropCall
    /\ named_cropper = NoNamedCropper
    /\ pipeline = NoPipeline

CropBboxFromFrame ==
    /\ function_call.function = "none"
    /\ function_call' =
         [function_call EXCEPT
            !.function = "crop_bbox_from_frame",
            !.result = << crop_bbox_from_frame(function_call.arguments.frame,
                                               function_call.arguments.bbox,
                                               function_call.arguments.padding) >>]
    /\ UNCHANGED <<tracker_vars, selector, crop_call, named_cropper, pipeline>>

ExtractColorHistogram ==
    /\ function_call.function = "none"
    /\ function_call' =
         [function_call EXCEPT
            !.function = "extract_color_histogram",
            !.result = << extract_color_histogram_of_frame(
                              function_call.arguments.frame,
                              function_call.arguments.bbox,
                              function_call.arguments.bins_h,
                              function_call.arguments.bins_s,
                              function_call.arguments.fma) >>]
    /\ UNCHANGED <<tracker_vars, selector, crop_call, named_cropper, pipeline>>

NextHistogram == CropBboxFromFrame \/ ExtractColorHistogram

SpecHistogram == InitHistogram /\ [][NextHistogram]_vars

\* Every coordinate of the bbox is a whole number of pixels.
WholePixels(bbox) ==
    \A v \in {bbox.x1, bbox.y1, bbox.x2, bbox.y2} : v % CoordDen = 0

\* Width and height of the intersection of a whole-pixel bbox with the
\* frame, in pixels.
ClippedWidth(frame, bbox) ==
    Max(0, Min(Px(frame.shape[2]), bbox.x2) - Max(0, bbox.x1)) \div CoordDen

ClippedHeight(frame, bbox) ==
    Max(0, Min(Px(frame.shape[1]), bbox.y2) - Max(0, bbox.y1)) \div CoordDen

\* C26: with padding 0 and a bbox in whole pixels, crop_bbox_from_frame
\* returns the intersection of the bbox with the frame: its width is
\* max(0, min(w, x2) - max(0, x1)), its height max(0, min(h, y2) - max(0, y1)),
\* and every pixel of it lies inside the bbox, also when the bbox lies partly
\* or wholly outside the frame.
C26_CropIsIntersection ==
    ( /\ function_call.function = "crop_bbox_from_frame"
      /\ function_call.arguments.padding[1] = 0
      /\ WholePixels(function_call.arguments.bbox) ) =>
        LET frame == function_call.arguments.frame
            bbox == function_call.arguments.bbox
            view == function_call.result[1]
        IN /\ ViewShape(view)[2] = ClippedWidth(frame, bbox)
           /\ ViewShape(view)[1] = ClippedHeight(frame, bbox)
           /\ \A r \in view.rows[1]..(view.rows[2] - 1),
                 c \in view.cols[1]..(view.cols[2] - 1) :
                   /\ bbox.x1 <= Px(c) /\ Px(c + 1) <= bbox.x2
                   /\ bbox.y1 <= Px(r) /\ Px(r + 1) <= bbox.y2

\* The intersection of the bbox with the frame has no area.
ClippedEmpty(frame, bbox) ==
    \/ Min(Px(frame.shape[2]), bbox.x2) <= Max(0, bbox.x1)
    \/ Min(Px(frame.shape[1]), bbox.y2) <= Max(0, bbox.y1)

\* C25: for every frame and every bbox whose intersection with the frame is
\* empty or has no width or no height (a bbox wholly left of or above the
\* frame included), extract_color_histogram returns the zero vector of
\* length bins_h + bins_s.
C25_EmptyCropGivesZeros ==
    ( /\ function_call.function = "extract_color_histogram"
      /\ ClippedEmpty(function_call.arguments.frame,
                      function_call.arguments.bbox) ) =>
        function_call.result[1] =
            [b \in 1..(function_call.arguments.bins_h
                          + function_call.arguments.bins_s) |-> FZero]

\* ------------------------------- player_selector_terminal: parse_player_input
\* Longest input string, apart from LongInputs.
ParseMaxLen == 5

\* The decimal digits of Unicode (the characters of category Nd, as of
\* Unicode 14): the ASCII digits and, in each of the scripts below, ten
\* characters named "<script> digit zero" to "<script> digit nine".
DigitScripts ==
    {"arabic-indic", "extended arabic-indic", "nko", "devanagari", "bengali",
     "gurmukhi", "gujarati", "oriya", "tamil", "telugu", "kannada",
     "malayalam", "sinhala lith", "thai", "lao", "tibetan", "myanmar",
     "myanmar shan", "khmer", "mongolian", "limbu", "new tai lue",
     "tai tham hora", "tai tham tham", "balinese", "sundanese", "lepcha",
     "ol chiki", "vai", "saurashtra", "kayah li", "javanese",
     "myanmar tai laing", "cham", "meetei mayek", "fullwidth", "osmanya",
     "hanifi rohingya", "brahmi", "sora sompeng", "chakma", "sharada",
     "khudawadi", "newa", "tirhuta", "modi", "takri", "ahom", "warang citi",
     "dives akuru", "bhaiksuki", "masaram gondi", "gunjala gondi", "mro",
     "tangsa", "pahawh hmong", "mathematical bold",
     "mathematical double-struck", "mathematical sans-serif",
     "mathematical sans-serif bold", "mathematical monospace",
     "nyiakeng puachue hmong", "wancho", "adlam", "segmented"}

DigitWords ==
    <<"zero", "one", "two", "three", "four", "five", "six", "seven", "eight",
      "nine">>

\* The digit of value v of a script.
ScriptDigit(script, v) == script \o " digit " \o DigitWords[v + 1]

\* <<c, v>> for every decimal digit c, v being its value.
DigitValues ==
    {<<DecimalDigits[v + 1], v>> : v \in 0..9}
        \cup {<<ScriptDigit(script, v), v>> : script \in DigitScripts, v \in 0..9}

\* The characters \d matches in a str pattern: the decimal digits of every
\* script.
Digits == {d[1] : d \in DigitValues}

\* int() of one digit.
DigitValue(c) == (CHOOSE d \in DigitValues : d[1] = c)[2]

\* sys.int_info.default_max_str_digits: int() of a longer string of digits
\* raises ValueError.
int_max_str_digits == 4300

\* A string of digits without the zeros it starts with.
Significant(x) ==
    IF \A k \in 1..Len(x) : DigitValue(x[k]) = 0 THEN << >>
    ELSE SubSeq(x, CHOOSE a \in 1..Len(x) :
                       /\ DigitValue(x[a]) # 0
                       /\ \A k \in 1..(a - 1) : DigitValue(x[k]) = 0,
                Len(x))

\* A Python int has any size, an integer here has 32 bits: a Python int is
\* held as its decimal numeral, the values of its digits from the highest
\* down without leading zeros (0 is << >>), and as an integer where it is
\* known to lie within max_id.
\* int(x) of a string of at most int_max_str_digits digits.
IntOfDigits(x) ==
    Val({ [k \in 1..Len(u) |-> DigitValue(u[k])] \o << >> :
          u \in {Significant(x)} })

\* The numeral of the largest integer, 2^31 - 1.
LargestInteger == <<2, 1, 4, 7, 4, 8, 3, 6, 4, 7>>

\* The number of numeral n is at most that of numeral m.
NumeralLe(n, m) ==
    \/ Len(n) < Len(m)
    \/ /\ Len(n) = Len(m)
       /\ \A k \in 1..Len(n) :
             n[k] > m[k] => \E j \in 1..(k - 1) : n[j] < m[j]

\* The number of numeral n as an integer, for n up to LargestInteger.
RECURSIVE IntegerOf(_)
IntegerOf(n) ==
    IF Len(n) = 0 THEN 0
    ELSE 10 * IntegerOf(SubSeq(n, 1, Len(n) - 1)) + n[Len(n)]

\* 1 <= pid <= max_id for the Python int pid and the integer max_id: a pid
\* above every integer is above max_id.
InRange(pid, max_id) ==
    /\ NumeralLe(pid, LargestInteger)
    /\ 1 <= IntegerOf(pid)
    /\ IntegerOf(pid) <= max_id

\* The first position from i on that holds a digit, Len(s) + 1 if none does.
NextDigit(s, i) ==
    CHOOSE a \in i..(Len(s) + 1) :
        /\ a = Len(s) + 1 \/ s[a] \in Digits
        /\ \A k \in i..(a - 1) : s[k] \notin Digits

\* The last position of the run of digits that starts at position a.
RunEnd(s, a) ==
    CHOOSE b \in a..Len(s) :
        /\ b = Len(s) \/ s[b + 1] \notin Digits
        /\ \A k \in a..b : s[k] \in Digits

\* re.findall(r'\d+', input_str) from position i on: the maximal runs of
\* digits, left to right.
RECURSIVE FindAllDigits(_, _)
FindAllDigits(input_str, i) ==
    IF NextDigit(input_str, i) > Len(input_str) THEN << >>
    ELSE <<SubSeq(input_str, NextDigit(input_str, i),
                  RunEnd(input_str, NextDigit(input_str, i)))>>
             \o FindAllDigits(input_str,
                              RunEnd(input_str, NextDigit(input_str, i)) + 1)

\* The filter loop over ids from position i on.
RECURSIVE ValidIds(_, _, _, _)
ValidIds(ids, max_id, i, valid_ids) ==
    IF i > Len(ids) THEN valid_ids
    ELSE IF InRange(ids[i], max_id)
    THEN IF IntegerOf(ids[i]) \notin SeqRange(valid_ids)
         THEN ValidIds(ids, max_id, i + 1,
                       Append(valid_ids, IntegerOf(ids[i])))
         ELSE ValidIds(ids, max_id, i + 1, valid_ids)
    ELSE ValidIds(ids, max_id, i + 1, valid_ids)

\* [int(x) for x in found] raises: int() does for a string of more than
\* int_max_str_digits digits, and the function does not catch it.
IntRaises(found) == \E k \in 1..Len(found) : Len(found[k]) > int_max_str_digits

\* What a call that raises ValueError gives instead of a list.
ValueError == [raises |-> "ValueError"]

parse_player_input(input_str, max_id) ==
    LET found == FindAllDigits(input_str, 1)
        ids == [k \in 1..Len(found) |-> IntOfDigits(found[k])]
    IN IF IntRaises(found) THEN ValueError
       ELSE ValidIds(ids, max_id, 1, << >>)

\* The characters of the input strings: digits, one of them not an ASCII
\* digit, the separators of the accepted formats, a letter and a sign.
ParseChars == {"0", "1", "2", "arabic-indic digit three", ",", " ", "a", "-"}

\* Inputs with a run of int_max_str_digits + 1 digits: one that is nothing
\* else, and one that has the id 2 before a run of zeros.
LongInputs ==
    { [k \in 1..(int_max_str_digits + 1) |-> "1"],
      <<"2", ",">> \o [k \in 1..(int_max_str_digits + 1) |-> "0"] }

\* Inputs with numbers of ten digits: two that differ in the last digit,
\* below 2^31, and one above 2^32.
BigInputs ==
    { <<"1", "2", "3", "4", "5", "6", "7", "8", "9", "0">>,
      <<"1", "2", "3", "4", "5", "6", "7", "8", "9", "0", ",", " ",
        "1", "2", "3", "4", "5", "6", "7", "8", "9", "1">>,
      <<"4", "2", "9", "4", "9", "6", "7", "2", "9", "7", " ", "1">> }

ParseInputs ==
    UNION {[1..n -> ParseChars] : n \in 0..ParseMaxLen}
        \cup LongInputs \cup BigInputs

\* max_id is the number of detections on the selection frame; the function
\* takes any integer, and the last is one above the ten-digit numbers of
\* BigInputs.
ParseMaxIds == {0, 2, 12, 2000000000}

InitParse ==
    /\ \E input_str \in ParseInputs, max_id \in ParseMaxIds :
           function_call = [NoFunctionCall EXCEPT
                              !.arguments = <<input_str, max_id>>]
    /\ TrackerIdle
    /\ selector = NoSelector
    /\ crop_call = NoCropCall
    /\ named_cropper = NoNamedCropper
    /\ pipeline = NoPipeline

\* One call: it returns the list, or raises.
ParsePlayerInput ==
    /\ function_call.function = "none"
    /\ function_call' =
         IF IntRaises(FindAllDigits(function_call.arguments[1], 1))
         THEN [function_call EXCEPT
                 !.function = "parse_player_input", !.raised = "ValueError"]
         ELSE [function_call EXCEPT
                 !.function = "parse_player_input",
                 !.result = << parse_player_input(function_call.arguments[1],
                                                  function_call.arguments[2]) >>]
    /\ UNCHANGED <<tracker_vars, selector, crop_call, named_cropper, pipeline>>

NextParse == ParsePlayerInput

SpecParse == InitParse /\ [][NextParse]_vars

\* The numbers up to max_id written in the string s, as <<start, value>>: a
\* number is a run of digits that no digit precedes or follows; a sign, a
\* letter or a separator next to it is not part of it.
NumbersIn(s, max_id) ==
    {<<ab[1], IntegerOf(IntOfDigits(SubSeq(s, ab[1], ab[2])))>> : ab \in
        {ab \in (1..Len(s)) \X (1..Len(s)) :
            /\ ab[1] <= ab[2]
            /\ \A k \in ab[1]..ab[2] : s[k] \in Digits
            /\ ab[1] = 1 \/ s[ab[1] - 1] \notin Digits
            /\ ab[2] = Len(s) \/ s[ab[2] + 1] \notin Digits
            /\ InRange(IntOfDigits(SubSeq(s, ab[1], ab[2])), max_id)}}

\* Where the number v is first written in s.
FirstOccurrence(s, max_id, v) ==
    CHOOSE a \in 1..Len(s) :
        /\ <<a, v>> \in NumbersIn(s, max_id)
        /\ \A n \in NumbersIn(s, max_id) : n[2] = v => a <= n[1]

\* valid_ids holds the numbers written in s that lie in 1..max_id, each once,
\* in the order in which they are first written.
ValidIdsInOrder(s, max_id, valid_ids) ==
    LET valid == {n[2] : n \in NumbersIn(s, max_id)}
    IN /\ SeqRange(valid_ids) = valid
       /\ Len(valid_ids) = Cardinality(valid)
       /\ \A i, j \in 1..Len(valid_ids) :
             i < j => FirstOccurrence(s, max_id, valid_ids[i])
                          < FirstOccurrence(s, max_id, valid_ids[j])

\* C27: for every input string parse_player_input returns the
\* numbers written in the input that lie in 1..max_id, each once, in the
\* order in which they are first written; numbers out of range and text that
\* is not a number are skipped, and the result is empty when the input holds
\* no valid id.
C27_ParseKeepsValidIdsInOrder ==
    function_call.function = "parse_player_input" =>
        /\ function_call.raised = "none"
        /\ ValidIdsInOrder(function_call.arguments[1],
                           function_call.arguments[2], function_call.result[1])

\* Some run of digits of s is longer than int_max_str_digits.
LongRun(s) ==
    \E a \in 1..(Len(s) - int_max_str_digits) :
        \A k \in a..(a + int_max_str_digits) : s[k] \in Digits

\* parse_player_input raises ValueError, and returns nothing, exactly for the
\* inputs with a run of more than int_max_str_digits digits; for every other
\* input it returns the numbers written in the input that lie in 1..max_id,
\* each once, in the order in which they are first written.
ParseRaisesOnLongRunOnly ==
    function_call.function = "parse_player_input" =>
        IF LongRun(function_call.arguments[1])
        THEN function_call.raised = "ValueError" /\ function_call.result = << >>
        ELSE /\ function_call.raised = "none"
             /\ ValidIdsInOrder(function_call.arguments[1],
                                function_call.arguments[2],
                                function_call.result[1])

\* ------------------------------------------------ hybrid_rematch on its own
\* Longest detection list handed to hybrid_rematch.
RematchMaxLen == 2

\* last_bbox of the lost player, 7 pixels wide and 5 high: the centre region
\* extract_color_histogram reads of a box of this size is 5 by 5 pixels,
\* enough for the 25 colours of OddBins and of EvenBins.
RematchLastBbox == Box(0, 0, Px(7), Px(5))

\* The box of that size dx to the right of and dy below last_bbox (in
\* 1/CoordDen pixels).
At(dx, dy) == Box(dx, dy, Px(7) + dx, Px(5) + dy)

\* Crops of the frame, as <<box, histogram>>.  Red ones where the player
\* was, to the right at 5 and 12.5 pixels, and at (5, 1) and (3, 4), nearly
\* as far as each other; 5 pixels below it, a blue one or one with the
\* colours of EvenBins; one with the colours of EvenBins where the player
\* was, and one with those of OddBins 7.5 pixels to the right.
RematchCrops ==
    {<<At(0, 0), Red>>,
     <<At(Px(5), 0), Red>>,
     <<At(Px(12) + 1, 0), Red>>,
     <<At(Px(5), Px(1)), Red>>,
     <<At(Px(3), Px(4)), Red>>,
     <<At(0, Px(5)), Blue>>,
     <<At(0, 0), EvenBins>>,
     <<At(0, Px(5)), EvenBins>>,
     <<At(Px(7) + 1, 0), OddBins>>}

\* Two boxes share no pixel.
Disjoint(a, b) ==
    \/ IntTrunc(a.x2) <= IntTrunc(b.x1) \/ IntTrunc(b.x2) <= IntTrunc(a.x1)
    \/ IntTrunc(a.y2) <= IntTrunc(b.y1) \/ IntTrunc(b.y2) <= IntTrunc(a.y1)

\* Some frame shows all the crops of a list: two crops are apart, or are
\* the same crop, or are both of the one colour red.
OnOneFrame(crops) ==
    \A i, j \in 1..Len(crops) :
        \/ Disjoint(crops[i][1], crops[j][1])
        \/ crops[i] = crops[j]
        \/ (crops[i][2] = Red /\ crops[j][2] = Red)

RematchCropLists ==
    {crops \in UNION {[1..n -> RematchCrops] : n \in 0..RematchMaxLen} :
        OnOneFrame(crops)}

\* The track ids of the detections of a list, in list order.
RematchTrackIds == {<<1, 2>>, <<2, 1>>, <<None, 1>>}

RematchDetectionLists ==
    {[i \in 1..Len(crops) |-> Det(crops[i][1], ids[i], crops[i][2])] :
        crops \in RematchCropLists, ids \in RematchTrackIds}

\* similarity_threshold: the default 0.4 and the values at which a score can
\* sit exactly (0, distance_weight, 1).
RematchThresholds == {<<0, 10>>, <<3, 10>>, <<4, 10>>, <<10, 10>>}

\* frames_lost: search radii of 5, 15 and 105 pixels.
RematchFramesLost == {1, 3, 21}

InitRematch ==
    /\ \E dets \in RematchDetectionLists, frames_lost \in RematchFramesLost,
          assigned \in {{}, {1}}, cap \in MaxDistanceCaps,
          threshold \in RematchThresholds,
          reference_histogram \in {Red, OddBins} :
           function_call =
               [NoFunctionCall EXCEPT
                  !.arguments = [last_bbox |-> RematchLastBbox,
                                 reference_histogram |-> reference_histogram,
                                 frames_lost |-> frames_lost,
                                 current_detections |-> dets,
                                 assigned_track_ids |-> assigned,
                                 base_speed |-> base_speed,
                                 max_distance_cap |-> cap,
                                 similarity_threshold |-> Literal(threshold)]]
    /\ TrackerIdle
    /\ selector = NoSelector
    /\ crop_call = NoCropCall
    /\ named_cropper = NoNamedCropper
    /\ pipeline = NoPipeline

HybridRematch ==
    /\ function_call.function = "none"
    /\ \E best_match \in
              hybrid_rematch(function_call.arguments.last_bbox,
                             function_call.arguments.reference_histogram,
                             function_call.arguments.frames_lost,
                             function_call.arguments.current_detections,
                             function_call.arguments.assigned_track_ids,
                             function_call.arguments.base_speed,
                             function_call.arguments.max_distance_cap,
                             function_call.arguments.similarity_threshold) :
           function_call' =
               [function_call EXCEPT
                  !.function = "hybrid_rematch", !.result = << best_match >>]
    /\ UNCHANGED <<tracker_vars, selector, crop_call, named_cropper, pipeline>>

NextRematch == HybridRematch

SpecRematch == InitRematch /\ [][NextRematch]_vars

\* Candidate i of a call, at the given distance, is eligible: it has a track
\* id that is not claimed and lies at most max_distance away.
EligibleAt(a, i, distance) ==
    /\ a.current_detections[i].track_id # None
    /\ a.current_detections[i].track_id \notin a.assigned_track_ids
    /\ ~TooFar(distance,
               MaxDistance(a.frames_lost, a.base_speed, a.max_distance_cap))

\* combined_score of candidate i of a call, at the given distance.
ScoreOf(a, i, distance) ==
    CandidateScore(a.reference_histogram, a.current_detections[i], distance,
                   MaxDistance(a.frames_lost, a.base_speed, a.max_distance_cap))

\* For candidate i of a call, <<combined_score>> if it is eligible and << >>
\* if it is not, for every double its distance can be.
ScoresAt(a, i) ==
    { IF EligibleAt(a, i, distance) THEN <<ScoreOf(a, i, distance)>> ELSE << >> :
      distance \in Distance(a.current_detections[i].bbox, a.last_bbox) }

\* The scores of the candidates of a call, for every way their distances can
\* come out.
Scores(a) ==
    Val({ {scores \in [1..Len(at) -> UNION {at[i] : i \in 1..Len(at)}] :
              \A i \in 1..Len(at) : scores[i] \in at[i]} :
          at \in {[i \in 1..Len(a.current_detections) |-> ScoresAt(a, i)]
                      \o << >>} })

Eligible(scores) == {i \in 1..Len(scores) : scores[i] # << >>}

\* The first eligible candidate, in list order, of maximum score.
FirstBest(scores) ==
    CHOOSE i \in Eligible(scores) :
        /\ \A j \in Eligible(scores) : FGe(scores[i][1], scores[j][1])
        /\ \A j \in Eligible(scores) :
               j < i => FGt(scores[i][1], scores[j][1])

\* What C28 has a call return, given the scores of its candidates.
FirstBestMatch(a, scores) ==
    IF Eligible(scores) # {}
          /\ MeetsThreshold(scores[FirstBest(scores)][1], a.similarity_threshold)
    THEN [track_id |-> a.current_detections[FirstBest(scores)].track_id,
          bbox |-> a.current_detections[FirstBest(scores)].bbox,
          hist |-> a.current_detections[FirstBest(scores)].hist]
    ELSE NoMatch

\* C28: hybrid_rematch returns the first detection, in list order, among the
\* eligible candidates of maximum combined_score if that maximum is at least
\* similarity_threshold (also when the score equals the threshold, and when
\* the threshold is 0), and no match otherwise.
C28_RematchIsFirstBest ==
    function_call.function = "hybrid_rematch" =>
        \E scores \in Scores(function_call.arguments) :
            function_call.result[1]
                = FirstBestMatch(function_call.arguments, scores)

\* --------------------------------------------------- claims on the tracker
\* Player p holds a track id and a reference histogram.
Tracking(p) ==
    /\ player_states[p].current_track_id # None
    /\ player_states[p].reference_histogram # << >>

\* C29: a player is UNINITIALIZED, TRACKING or LOST and nothing else; it
\* leaves UNINITIALIZED only in the step of a successful bootstrap match,
\* which leaves it with a non-null current_track_id (TRACKING), and it never
\* returns to UNINITIALIZED.
C29_PlayerStateMachine ==
    [][\A p \in Players :
          /\ Uninitialized(p) \/ Tracking(p) \/ Lost(p)
          /\ ~Uninitialized(p) => ~Uninitialized(p)'
          /\ (Uninitialized(p) /\ ~Uninitialized(p)') =>
                /\ pc = "bootstrap"
                /\ match_idx # None
                /\ p = Cur
                /\ Tracking(p)']_vars

\* C30: while a frame without detections is processed, no step changes a
\* player's last_bbox, frames, max_bbox or reference_histogram; a step can
\* only set current_track_id to null, add 1 to frames_lost and append the
\* frame to missing_frames.
C30_EmptyFrameOnlyLoses ==
    [][(InFrame /\ detections = << >>) =>
          \A p \in Players :
              /\ player_states'[p].last_bbox = player_states[p].last_bbox
              /\ player_states'[p].frames = player_states[p].frames
              /\ player_states'[p].max_bbox = player_states[p].max_bbox
              /\ player_states'[p].reference_histogram
                    = player_states[p].reference_histogram
              /\ player_states'[p].selection_id = player_states[p].selection_id
              /\ player_states'[p].current_track_id
                    \in {player_states[p].current_track_id, None}
              /\ player_states'[p].frames_lost
                    \in {player_states[p].frames_lost,
                         player_states[p].frames_lost + 1}
              /\ player_states'[p].missing_frames
                    \in {player_states[p].missing_frames,
                         Append(player_states[p].missing_frames, frame_idx)}]_vars

\* C30 witness: the frame just processed had no detections, and a player
\* matched in the frame before it lost its track id in PASS 1 and has the
\* frame in missing_frames.
C30_Witness ==
    /\ FrameEnd
    /\ detections = << >>
    /\ \E p \in Players :
          /\ LastFrame >= 1
          /\ MatchedIn(p, LastFrame - 1)
          /\ Lost(p)
          /\ player_states[p].frames_lost = 1
          /\ LastFrame \in SeqRange(player_states[p].missing_frames)

\* ------------------------------------------------- claims C31 and following
\* C31: once the selector has returned no result, run_interactive_tracking
\* has returned the empty list, neither run_selective_tracking nor
\* crop_named_player_videos has been called, and no further step is taken.
C31_CancelledSelectionStopsPipeline ==
    [][pipeline.selection_result = "None" =>
          /\ pipeline.pc = "returned"
          /\ pipeline.result = << >>
          /\ Calls("run_selective_tracking") = 0
          /\ Calls("crop_named_player_videos") = 0
          /\ pipeline' = pipeline]_vars

\* C31 witness: the GUI selector was called, returned no result, and the
\* function has returned.
C31_Witness ==
    /\ pipeline.selection_result = "None"
    /\ pipeline.pc = "returned"
    /\ pipeline.calls = <<Call("select_players_gui", "selected_players.json", FALSE)>>

\* C32: at the end of every frame, a player that holds a track id was
\* matched in that frame (the frame is a key of frames and last_bbox is its
\* entry), has frames_lost = 0 and has a reference histogram.
C32_TrackIdMeansMatchedNow ==
    FrameEnd =>
        \A p \in Players :
            player_states[p].current_track_id # None =>
                /\ MatchedIn(p, LastFrame)
                /\ player_states[p].frames[LastFrame] = player_states[p].last_bbox
                /\ player_states[p].frames_lost = 0
                /\ player_states[p].reference_histogram # << >>

\* C32 witness: at the end of a frame after the first, one player holds a
\* track id through continuity and another through re-identification after
\* a loss.
C32_Witness ==
    /\ FrameEnd
    /\ LastFrame >= 2
    /\ \E p, q \in Players :
          /\ p # q
          /\ Tracking(p) /\ Tracking(q)
          /\ \A f \in 0..LastFrame : MatchedIn(p, f)
          /\ MatchedIn(q, LastFrame) /\ ~MatchedIn(q, LastFrame - 1)
          /\ MatchedIn(q, 0)

\* C33: whenever hybrid_rematch has been called for a player, that player's
\* frames_lost is at least 1 and the search radius max_distance is
\* positive.
C33_RematchOnlyAfterLoss ==
    pc = "hybrid" =>
        /\ player_states[Cur].frames_lost >= 1
        /\ MaxDistance(player_states[Cur].frames_lost, base_speed,
                       max_distance_cap) > 0

\* The number of frames read so far, the one being processed included.
FramesStarted == IF InFrame THEN frame_idx + 1 ELSE frame_idx

\* C34: at every point of the run and for every player, no frame is both a
\* key of frames and an entry of missing_frames, missing_frames is strictly
\* increasing, and the number of keys of frames plus the length of
\* missing_frames is at most the number of frames read so far.
C34_HistoryAndMissingDisjoint ==
    \A p \in Players :
        /\ DOMAIN player_states[p].frames
              \cap SeqRange(player_states[p].missing_frames) = {}
        /\ \A i, j \in 1..Len(player_states[p].missing_frames) :
              i < j => player_states[p].missing_frames[i]
                          < player_states[p].missing_frames[j]
        /\ Cardinality(DOMAIN player_states[p].frames)
              + Len(player_states[p].missing_frames) <= FramesStarted

\* C34 witness: a player with matched frames on both sides of a missing
\* frame, every frame read so far being one or the other.
C34_Witness ==
    /\ FrameEnd
    /\ \E p \in Players :
          /\ Len(player_states[p].missing_frames) >= 1
          /\ \E f, g \in DOMAIN player_states[p].frames :
                /\ f < player_states[p].missing_frames[1]
                /\ player_states[p].missing_frames[1] < g
          /\ Cardinality(DOMAIN player_states[p].frames)
                + Len(player_states[p].missing_frames) = frame_idx

\* C35: no frame index below selection_frame_idx is a key of a player's frames
\* or an entry of its missing_frames.
C35_NothingBeforeSelectionFrame ==
    \A p \in Players :
        \A f \in DOMAIN player_states[p].frames
                   \cup SeqRange(player_states[p].missing_frames) :
            f >= selection_frame_idx

\* ------------------------------------- the reference histogram of one player
\* The life of one player's reference_histogram under a run with a given
\* histogram_ema_alpha: set by the bootstrap, then blended by PASS 1 hits and
\* by re-identifications in any order, once a frame.
\* Frames after the bootstrap.
EmaFrames == 2

\* The pixel counts of the first two hue bins, and of the first two
\* saturation bins, of a crop of four pixels.
EmaCounts == {<<<<4, 0>>, <<0, 4>>>>, <<<<3, 1>>, <<1, 3>>>>, <<<<2, 2>>, <<1, 3>>>>}

\* calcHist of such a crop: the counts of the first two bins, 0 elsewhere.
TwoBins(counts, bins) ==
    [b \in 1..bins |-> IF b <= 2 THEN counts[b] ELSE 0]

\* Extracted histograms of crops of two colours (the least count is 0, so
\* that the way the library is built makes no difference).
EmaHistograms ==
    {normalize(TwoBins(c[1], default_bins_h), TRUE)
         \o normalize(TwoBins(c[2], default_bins_s), TRUE) : c \in EmaCounts}

\* histogram_ema_alpha, from 0 to 1.
EmaAlphas == {<<0, 10>>, <<1, 10>>, <<7, 10>>, <<10, 10>>}

InitEma ==
    /\ \E alpha \in EmaAlphas :
           function_call =
               [NoFunctionCall EXCEPT
                  !.arguments = [histogram_ema_alpha |-> Literal(alpha),
                                 new_hist |-> << >>,
                                 alpha |-> Literal(alpha),
                                 frame_idx |-> 0]]
    /\ TrackerIdle
    /\ selector = NoSelector
    /\ crop_call = NoCropCall
    /\ named_cropper = NoNamedCropper
    /\ pipeline = NoPipeline

\* Bootstrap: reference_histogram = extract_color_histogram(frame, det_bbox).
EmaBootstrap ==
    /\ function_call.function = "none"
    /\ \E hist \in EmaHistograms :
           function_call' =
               [function_call EXCEPT
                  !.function = "extract_color_histogram",
                  !.arguments.new_hist = hist,
                  !.result = << hist >>]
    /\ UNCHANGED <<tracker_vars, selector, crop_call, named_cropper, pipeline>>

\* PASS 1 hit in the next frame: update_histogram_ema with
\* alpha = histogram_ema_alpha.
EmaContinuity ==
    /\ function_call.function # "none"
    /\ function_call.arguments.frame_idx < EmaFrames
    /\ \E hist \in EmaHistograms :
           function_call' =
               [function_call EXCEPT
                  !.function = "update_histogram_ema",
                  !.arguments.new_hist = hist,
                  !.arguments.alpha = function_call.arguments.histogram_ema_alpha,
                  !.arguments.frame_idx = @ + 1,
                  !.result =
                      << update_histogram_ema(
                             function_call.result[1], hist,
                             function_call.arguments.histogram_ema_alpha) >>]
    /\ UNCHANGED <<tracker_vars, selector, crop_call, named_cropper, pipeline>>

\* Re-identification in the next frame: update_histogram_ema with
\* alpha = min(1.0, histogram_ema_alpha * 1.5).
EmaRematch ==
    /\ function_call.function # "none"
    /\ function_call.arguments.frame_idx < EmaFrames
    /\ \E hist \in EmaHistograms :
           function_call' =
               [function_call EXCEPT
                  !.function = "update_histogram_ema",
                  !.arguments.new_hist = hist,
                  !.arguments.alpha =
                      RematchAlpha(function_call.arguments.histogram_ema_alpha),
                  !.arguments.frame_idx = @ + 1,
                  !.result =
                      << update_histogram_ema(
                             function_call.result[1], hist,
                             RematchAlpha(
                                 function_call.arguments.histogram_ema_alpha)) >>]
    /\ UNCHANGED <<tracker_vars, selector, crop_call, named_cropper, pipeline>>

NextEma == EmaBootstrap \/ EmaContinuity \/ EmaRematch

SpecEma == InitEma /\ [][NextEma]_vars

\* C36: with histogram_ema_alpha between 0 and 1, every component of the
\* reference histogram stays between 0 and 1 after any sequence of bootstrap,
\* PASS 1 and re-identification updates.
C36_ReferenceHistogramInUnitRange ==
    function_call.function \in {"extract_color_histogram", "update_histogram_ema"} =>
        \A k \in 1..Len(function_call.result[1]) :
            /\ FGe(function_call.result[1][k], FZero)
            /\ FLe(function_call.result[1][k], FOne)

\* C36 witness: a re-identification with the capped weight (1.5 * 0.7 > 1),
\* whose result is the new histogram, with a component at 1 and another at
\* 0.
C36_Witness ==
    /\ function_call.function = "update_histogram_ema"
    /\ function_call.arguments.histogram_ema_alpha = Literal(<<7, 10>>)
    /\ function_call.arguments.alpha = FOne
    /\ function_call.result = << function_call.arguments.new_hist >>
    /\ function_call.result[1][1] = FOne
    /\ function_call.result[1][2] = FZero

\* ------------------------------------------------- player_selector_gui.py
\* str(n) of an integer n >= 0.
RECURSIVE str(_)
str(n) ==
    IF n < 10 THEN <<DecimalDigits[n + 1]>>
    ELSE str(n \div 10) \o <<DecimalDigits[(n % 10) + 1]>>

\* The characters str.strip() removes: the ASCII whitespace, the separators
\* FS, GS, RS and US, and the Unicode spaces ("nel" is U+0085, "nbsp" U+00A0,
\* "ideographic space" U+3000, and so on).
Whitespace ==
    {" ", "\t", "\n", "\r", "\f", "vt", "fs", "gs", "rs", "us", "nel", "nbsp",
     "ogham space", "en quad", "em quad", "en space", "em space",
     "three-per-em space", "four-per-em space", "six-per-em space",
     "figure space", "punctuation space", "thin space", "hair space",
     "line separator", "paragraph separator", "narrow nbsp",
     "medium mathematical space", "ideographic space"}

RECURSIVE lstrip(_)
lstrip(s) ==
    IF Len(s) > 0 /\ s[1] \in Whitespace THEN lstrip(Tail(s)) ELSE s

RECURSIVE rstrip(_)
rstrip(s) ==
    IF Len(s) > 0 /\ s[Len(s)] \in Whitespace
    THEN rstrip(SubSeq(s, 1, Len(s) - 1)) ELSE s

\* s.strip()
strip(s) == rstrip(lstrip(s))

\* The name given to the detection at index: what was typed at the prompt,
\* stripped, or "Player_<index+1>" when nothing is left.
PromptName(typed, index) ==
    IF strip(typed) = << >>
    THEN <<"P", "l", "a", "y", "e", "r", "_">> \o str(index + 1)
    ELSE strip(typed)

\* What the model returns for a frame: boxes with float corners and a class
\* (0 for a person, here 32 for a ball).
PersonClass == 0
SelectorFrame2 ==
    << [bbox |-> BoxAw, cls |-> PersonClass], [bbox |-> BoxM, cls |-> 32],
       [bbox |-> BoxB, cls |-> PersonClass] >>
SelectorFrame1 == << [bbox |-> BoxB, cls |-> PersonClass] >>
SelectorFrame0 == << >>

\* The videos: the model's output for each frame, and the frames that
\* cap.read() cannot read.
SelectorVideos ==
    { [frames |-> <<SelectorFrame2, SelectorFrame1>>, unreadable |-> {}],
      [frames |-> <<SelectorFrame2, SelectorFrame0>>, unreadable |-> {}],
      [frames |-> <<SelectorFrame1, SelectorFrame2, SelectorFrame2>>,
       unreadable |-> {1}],
      [frames |-> <<SelectorFrame2>>, unreadable |-> {0}] }

SelectorMaxPlayers == {1, 2}

\* Where the user clicks (whole pixels) and what they type at the prompt.
ClickPoints == {<<5, 10>>, <<10, 10>>, <<15, 10>>, <<30, 30>>}
TypedNames == {<< >>, <<" ">>, <<"a">>, <<" ", "b", " ">>, <<"\t">>, <<"\t", "a">>}

\* What input() does at the name prompt: it returns the text typed, or it
\* raises (end of input on stdin, Ctrl-C).
Prompts ==
    {[error |-> "", text |-> typed] : typed \in TypedNames}
    \cup {[error |-> e, text |-> << >>] : e \in {"EOFError", "KeyboardInterrupt"}}

NoEvent == [key |-> "none", x |-> 0, y |-> 0, typed |-> << >>, error |-> ""]

\* _run_detection: the person boxes of the model's output, corners truncated.
RECURSIVE _run_detection(_)
_run_detection(results) ==
    IF Len(results) = 0 THEN << >>
    ELSE IF Head(results).cls = PersonClass
    THEN <<IntBox(Head(results).bbox)>> \o _run_detection(Tail(results))
    ELSE _run_detection(Tail(results))

\* _load_frame at self.frame_index: an unreadable frame leaves frame and
\* detections as they were.
_load_frame(self) ==
    IF self.frame_index \in self.unreadable
       \/ self.frame_index < 0 \/ self.frame_index >= Len(self.video)
    THEN self
    ELSE [self EXCEPT !.frame = self.frame_index,
                      !.detections = _run_detection(self.video[self.frame_index + 1])]

_is_point_in_bbox(x, y, bbox) ==
    /\ bbox.x1 <= Px(x) /\ Px(x) <= bbox.x2
    /\ bbox.y1 <= Px(y) /\ Px(y) <= bbox.y2

\* The index (from 0) of the first detection containing the point; None when
\* there is none.
RECURSIVE FirstHit(_, _, _, _)
FirstHit(dets, x, y, i) ==
    IF i >= Len(dets) THEN None
    ELSE IF _is_point_in_bbox(x, y, dets[i + 1]) THEN i
    ELSE FirstHit(dets, x, y, i + 1)

\* list.remove(v): drops the first occurrence of v.
RECURSIVE ListRemove(_, _)
ListRemove(list, v) ==
    IF Len(list) = 0 THEN list
    ELSE IF Head(list) = v THEN Tail(list)
    ELSE <<Head(list)>> \o ListRemove(Tail(list), v)

\* dict.pop(k, None)
DictPop(dict, k) == [j \in DOMAIN dict \ {k} |-> dict[j]]

\* _toggle_selection reaches input(): the index is not selected and there is
\* room for it.
AsksName(self, index) ==
    /\ index \notin SeqRange(self.selected_indices)
    /\ Len(self.selected_indices) < self.max_players

\* _toggle_selection up to its return or to the call of input(): a selected
\* index is removed with its name, a new one is appended unless the selection
\* is full.
_toggle_selection(self, index) ==
    IF index \in SeqRange(self.selected_indices)
    THEN [self EXCEPT !.selected_indices = ListRemove(@, index),
                      !.player_names = DictPop(@, index)]
    ELSE IF Len(self.selected_indices) >= self.max_players THEN self
    ELSE [self EXCEPT !.selected_indices = Append(@, index)]

\* _toggle_selection after input() has returned typed: the index appended
\* last is named.
_toggle_selection_named(self, typed) ==
    [self EXCEPT
       !.player_names =
           Put(@, self.selected_indices[Len(self.selected_indices)],
               PromptName(typed,
                          self.selected_indices[Len(self.selected_indices)]))]

_on_mouse_click(self, x, y) ==
    IF FirstHit(self.detections, x, y, 0) = None THEN self
    ELSE _toggle_selection(self, FirstHit(self.detections, x, y, 0))

\* The click leaves the callback waiting in input().
ClickAsksName(self, x, y) ==
    /\ FirstHit(self.detections, x, y, 0) # None
    /\ AsksName(self, FirstHit(self.detections, x, y, 0))

\* The error _get_result raises while it builds the players list, "" if none:
\* self.player_names[i] is evaluated before self.detections[i].
RECURSIVE GetResultError(_, _)
GetResultError(self, k) ==
    IF k > Len(self.selected_indices) THEN ""
    ELSE IF self.selected_indices[k] \notin DOMAIN self.player_names
    THEN "KeyError"
    ELSE IF self.selected_indices[k] >= Len(self.detections) THEN "IndexError"
    ELSE GetResultError(self, k + 1)

_get_result(self) ==
    [selection_frame |-> self.frame_index,
     players |-> [k \in 1..Len(self.selected_indices) |->
                    [selection_id |-> self.selected_indices[k] + 1,
                     name |-> self.player_names[self.selected_indices[k]],
                     initial_bbox |->
                         self.detections[self.selected_indices[k] + 1]]]]

\* PlayerSelector(video_path, frame_index, max_players): the fields after
\* __init__, which ends with _load_frame.
InitSelector ==
    /\ \E video \in SelectorVideos, max_players \in SelectorMaxPlayers :
        \E frame_index \in 0..(Len(video.frames) - 1) :
           selector =
               _load_frame([NoSelector EXCEPT
                              !.pc = "constructed",
                              !.video = video.frames,
                              !.unreadable = video.unreadable,
                              !.frame_index = frame_index,
                              !.total_frames = Len(video.frames),
                              !.max_players = max_players,
                              !.event = NoEvent])
    /\ TrackerIdle
    /\ crop_call = NoCropCall
    /\ named_cropper = NoNamedCropper
    /\ pipeline = NoPipeline
    /\ function_call = NoFunctionCall

\* run enters its loop: _draw copies self.frame, which is None when the first
\* frame could not be read.
SelectorRun ==
    /\ selector.pc = "constructed"
    /\ selector' = [selector EXCEPT
                       !.pc = IF selector.frame = None THEN "raised" ELSE "running"]
    /\ UNCHANGED <<tracker_vars, crop_call, named_cropper, pipeline, function_call>>

\* A left click at (x, y): the mouse callback returns, or it has appended the
\* index and waits in input() for the name.
SelectorClick ==
    /\ selector.pc = "running"
    /\ \E point \in ClickPoints :
           selector' =
               [_on_mouse_click(selector, point[1], point[2]) EXCEPT
                  !.event = [NoEvent EXCEPT !.key = "click", !.x = point[1],
                                            !.y = point[2]],
                  !.pc = IF ClickAsksName(selector, point[1], point[2])
                         THEN "input" ELSE "running"]
    /\ UNCHANGED <<tracker_vars, crop_call, named_cropper, pipeline, function_call>>

\* input() at the name prompt returns and the callback stores the name, or
\* it raises: the error is either printed and dropped by the window library,
\* and the loop goes on, or it ends run.
SelectorInput ==
    /\ selector.pc = "input"
    /\ \E prompt \in Prompts, dropped \in BOOLEAN :
           selector' =
               IF prompt.error = ""
               THEN [_toggle_selection_named(selector, prompt.text) EXCEPT
                       !.event = [NoEvent EXCEPT !.key = "input",
                                                 !.typed = prompt.text],
                       !.pc = "running"]
               ELSE [selector EXCEPT
                       !.event = [NoEvent EXCEPT !.key = "input",
                                                 !.error = prompt.error],
                       !.pc = IF dropped THEN "running" ELSE "raised",
                       !.result = IF dropped THEN << >> ELSE <<prompt.error>>]
    /\ UNCHANGED <<tracker_vars, crop_call, named_cropper, pipeline, function_call>>

\* Key 'r'.
SelectorReset ==
    /\ selector.pc = "running"
    /\ selector' = [selector EXCEPT !.selected_indices = << >>,
                                    !.player_names = << >>,
                                    !.event = [NoEvent EXCEPT !.key = "r"]]
    /\ UNCHANGED <<tracker_vars, crop_call, named_cropper, pipeline, function_call>>

\* Key 'n'.
SelectorNextFrame ==
    /\ selector.pc = "running"
    /\ selector' =
         [(IF selector.frame_index < selector.total_frames - 1
           THEN _load_frame([selector EXCEPT !.frame_index = @ + 1])
           ELSE selector)
          EXCEPT !.event = [NoEvent EXCEPT !.key = "n"]]
    /\ UNCHANGED <<tracker_vars, crop_call, named_cropper, pipeline, function_call>>

\* Key 'p'.
SelectorPreviousFrame ==
    /\ selector.pc = "running"
    /\ selector' =
         [(IF selector.frame_index > 0
           THEN _load_frame([selector EXCEPT !.frame_index = @ - 1])
           ELSE selector)
          EXCEPT !.event = [NoEvent EXCEPT !.key = "p"]]
    /\ UNCHANGED <<tracker_vars, crop_call, named_cropper, pipeline, function_call>>

\* Key 's' or Enter: run returns _get_result(), or the error it raises.
SelectorSave ==
    /\ selector.pc = "running"
    /\ selector' =
         IF GetResultError(selector, 1) # ""
         THEN [selector EXCEPT !.pc = "raised",
                               !.result = <<GetResultError(selector, 1)>>,
                               !.event = [NoEvent EXCEPT !.key = "s"]]
         ELSE [selector EXCEPT !.pc = "saved",
                               !.result = <<_get_result(selector)>>,
                               !.event = [NoEvent EXCEPT !.key = "s"]]
    /\ UNCHANGED <<tracker_vars, crop_call, named_cropper, pipeline, function_call>>

\* Key 'q' or Esc, or the window was closed: run returns None.
SelectorQuit ==
    /\ selector.pc = "running"
    /\ \E key \in {"q", "closed"} :
           selector' = [selector EXCEPT !.pc = "cancelled",
                                       !.event = [NoEvent EXCEPT !.key = key]]
    /\ UNCHANGED <<tracker_vars, crop_call, named_cropper, pipeline, function_call>>

NextSelector ==
    \/ SelectorRun \/ SelectorClick \/ SelectorInput \/ SelectorReset
    \/ SelectorNextFrame
    \/ SelectorPreviousFrame \/ SelectorSave \/ SelectorQuit

SpecSelector == InitSelector /\ [][NextSelector]_vars

\* The point of the last click hits the detection at index i (from 0).
ClickedOn(self, i) ==
    /\ self.event.key = "click"
    /\ FirstHit(self.detections, self.event.x, self.event.y, 0) = i

\* Between two events, that is, not while the mouse callback waits in
\* input().
SelectionConsistent ==
    selector.pc \notin {"idle", "input"} =>
        /\ \A i, j \in 1..Len(selector.selected_indices) :
              i # j => selector.selected_indices[i] # selector.selected_indices[j]
        /\ Len(selector.selected_indices) <= selector.max_players
        /\ DOMAIN selector.player_names = SeqRange(selector.selected_indices)

ClickOnSelectedDeselects ==
    \A i \in SeqRange(selector.selected_indices) :
        (selector.pc = "running" /\ selector'.pc = "running"
           /\ selector'.event.key = "click"
           /\ FirstHit(selector.detections, selector'.event.x,
                       selector'.event.y, 0) = i)
        => /\ i \notin SeqRange(selector'.selected_indices)
           /\ i \notin DOMAIN selector'.player_names
           /\ \A j \in SeqRange(selector.selected_indices) \ {i} :
                 /\ j \in SeqRange(selector'.selected_indices)
                 /\ selector'.player_names[j] = selector.player_names[j]

\* C37: after every event of the GUI selector, selected_indices has no
\* duplicates and at most max_players elements and the keys of player_names
\* are exactly the selected indices; a click on a selected detection removes
\* it and its name and leaves the other selections as they were.
C37_SelectionStaysConsistent ==
    []SelectionConsistent /\ [][ClickOnSelectedDeselects]_vars

\* C38: in every state of the GUI selector every selected index is below the
\* number of detections of the frame on display.
C38_SelectedIndicesAreOnDisplay ==
    selector.pc # "idle" =>
        \A k \in 1..Len(selector.selected_indices) :
            selector.selected_indices[k] < Len(selector.detections)

\* ------------------------------------- named_video_cropper.py: file names
\* Characters are one-character strings; a character outside ASCII is the
\* string of its Unicode name in lower case (the spaces keep their names of
\* Whitespace).
\* [a-z0-9]
ASCIILower ==
    {LowerLetters[k] : k \in 1..Len(LowerLetters)}
        \cup {DecimalDigits[k] : k \in 1..Len(DecimalDigits)}
ASCIIUpper == {UpperLetters[k] : k \in 1..Len(UpperLetters)}
ASCIIPunctuation ==
    {" ", "!", "\"", "#", "$", "%", "&", "'", "(", ")", "*", "+", ",", "-",
     ".", "/", ":", ";", "<", "=", ">", "?", "@", "[", "\\", "]", "^", "_",
     "grave accent", "{", "|", "}", "~"}
ASCIIControls == {"\t", "\n", "\r", "\f", "vt", "fs", "gs", "rs", "us"}
\* The characters encode("ascii", "ignore") keeps.
ASCII == ASCIILower \cup ASCIIUpper \cup ASCIIPunctuation \cup ASCIIControls

\* <<c, a, alnum>> for the characters c outside ASCII that names are made of,
\* apart from the decimal digits: the Latin-1 Supplement, Latin Extended-A,
\* the Vietnamese letters of Latin Extended Additional, the spaces and some
\* letters and symbols of other blocks. a is the ASCII part of the
\* compatibility decomposition of c and alnum is c.isalnum().
Characters ==
    {
      <<"nel", <<>>, FALSE>>,
      <<"nbsp", <<" ">>, FALSE>>,
      <<"inverted exclamation mark", <<>>, FALSE>>,
      <<"cent sign", <<>>, FALSE>>,
      <<"pound sign", <<>>, FALSE>>,
      <<"currency sign", <<>>, FALSE>>,
      <<"yen sign", <<>>, FALSE>>,
      <<"broken bar", <<>>, FALSE>>,
      <<"section sign", <<>>, FALSE>>,
      <<"diaeresis", <<" ">>, FALSE>>,
      <<"copyright sign", <<>>, FALSE>>,
      <<"feminine ordinal indicator", <<"a">>, TRUE>>,
      <<"left-pointing double angle quotation mark", <<>>, FALSE>>,
      <<"not sign", <<>>, FALSE>>,
      <<"soft hyphen", <<>>, FALSE>>,
      <<"registered sign", <<>>, FALSE>>,
      <<"macron", <<" ">>, FALSE>>,
      <<"degree sign", <<>>, FALSE>>,
      <<"plus-minus sign", <<>>, FALSE>>,
      <<"superscript two", <<"2">>, TRUE>>,
      <<"superscript three", <<"3">>, TRUE>>,
      <<"acute accent", <<" ">>, FALSE>>,
      <<"micro sign", <<>>, TRUE>>,
      <<"pilcrow sign", <<>>, FALSE>>,
      <<"middle dot", <<>>, FALSE>>,
      <<"cedilla", <<" ">>, FALSE>>,
      <<"superscript one", <<"1">>, TRUE>>,
      <<"masculine ordinal indicator", <<"o">>, TRUE>>,
      <<"right-pointing double angle quotation mark", <<>>, FALSE>>,
      <<"vulgar fraction one quarter", <<"1", "4">>, TRUE>>,
      <<"vulgar fraction one half", <<"1", "2">>, TRUE>>,
      <<"vulgar fraction three quarters", <<"3", "4">>, TRUE>>,
      <<"inverted question mark", <<>>, FALSE>>,
      <<"latin capital letter a with grave", <<"A">>, TRUE>>,
      <<"latin capital letter a with acute", <<"A">>, TRUE>>,
      <<"latin capital letter a with circumflex", <<"A">>, TRUE>>,
      <<"latin capital letter a with tilde", <<"A">>, TRUE>>,
      <<"latin capital letter a with diaeresis", <<"A">>, TRUE>>,
      <<"latin capital letter a with ring above", <<"A">>, TRUE>>,
      <<"latin capital letter ae", <<>>, TRUE>>,
      <<"latin capital letter c with cedilla", <<"C">>, TRUE>>,
      <<"latin capital letter e with grave", <<"E">>, TRUE>>,
      <<"latin capital letter e with acute", <<"E">>, TRUE>>,
      <<"latin capital letter e with circumflex", <<"E">>, TRUE>>,
      <<"latin capital letter e with diaeresis", <<"E">>, TRUE>>,
      <<"latin capital letter i with grave", <<"I">>, TRUE>>,
      <<"latin capital letter i with acute", <<"I">>, TRUE>>,
      <<"latin capital letter i with circumflex", <<"I">>, TRUE>>,
      <<"latin capital letter i with diaeresis", <<"I">>, TRUE>>,
      <<"latin capital letter eth", <<>>, TRUE>>,
      <<"latin capital letter n with tilde", <<"N">>, TRUE>>,
      <<"latin capital letter o with grave", <<"O">>, TRUE>>,
      <<"latin capital letter o with acute", <<"O">>, TRUE>>,
      <<"latin capital letter o with circumflex", <<"O">>, TRUE>>,
      <<"latin capital letter o with tilde", <<"O">>, TRUE>>,
      <<"latin capital letter o with diaeresis", <<"O">>, TRUE>>,
      <<"multiplication sign", <<>>, FALSE>>,
      <<"latin capital letter o with stroke", <<>>, TRUE>>,
      <<"latin capital letter u with grave", <<"U">>, TRUE>>,
      <<"latin capital letter u with acute", <<"U">>, TRUE>>,
      <<"latin capital letter u with circumflex", <<"U">>, TRUE>>,
      <<"latin capital letter u with diaeresis", <<"U">>, TRUE>>,
      <<"latin capital letter y with acute", <<"Y">>, TRUE>>,
      <<"latin capital letter thorn", <<>>, TRUE>>,
      <<"latin small letter sharp s", <<>>, TRUE>>,
      <<"latin small letter a with grave", <<"a">>, TRUE>>,
      <<"latin small letter a with acute", <<"a">>, TRUE>>,
      <<"latin small letter a with circumflex", <<"a">>, TRUE>>,
      <<"latin small letter a with tilde", <<"a">>, TRUE>>,
      <<"latin small letter a with diaeresis", <<"a">>, TRUE>>,
      <<"latin small letter a with ring above", <<"a">>, TRUE>>,
      <<"latin small letter ae", <<>>, TRUE>>,
      <<"latin small letter c with cedilla", <<"c">>, TRUE>>,
      <<"latin small letter e with grave", <<"e">>, TRUE>>,
      <<"latin small letter e with acute", <<"e">>, TRUE>>,
      <<"latin small letter e with circumflex", <<"e">>, TRUE>>,
      <<"latin small letter e with diaeresis", <<"e">>, TRUE>>,
      <<"latin small letter i with grave", <<"i">>, TRUE>>,
      <<"latin small letter i with acute", <<"i">>, TRUE>>,
      <<"latin small letter i with circumflex", <<"i">>, TRUE>>,
      <<"latin small letter i with diaeresis", <<"i">>, TRUE>>,
      <<"latin small letter eth", <<>>, TRUE>>,
      <<"latin small letter n with tilde", <<"n">>, TRUE>>,
      <<"latin small letter o with grave", <<"o">>, TRUE>>,
      <<"latin small letter o with acute", <<"o">>, TRUE>>,
      <<"latin small letter o with circumflex", <<"o">>, TRUE>>,
      <<"latin small letter o with tilde", <<"o">>, TRUE>>,
      <<"latin small letter o with diaeresis", <<"o">>, TRUE>>,
      <<"division sign", <<>>, FALSE>>,
      <<"latin small letter o with stroke", <<>>, TRUE>>,
      <<"latin small letter u with grave", <<"u">>, TRUE>>,
      <<"latin small letter u with acute", <<"u">>, TRUE>>,
      <<"latin small letter u with circumflex", <<"u">>, TRUE>>,
      <<"latin small letter u with diaeresis", <<"u">>, TRUE>>,
      <<"latin small letter y with acute", <<"y">>, TRUE>>,
      <<"latin small letter thorn", <<>>, TRUE>>,
      <<"latin small letter y with diaeresis", <<"y">>, TRUE>>,
      <<"latin capital letter a with macron", <<"A">>, TRUE>>,
      <<"latin small letter a with macron", <<"a">>, TRUE>>,
      <<"latin capital letter a with breve", <<"A">>, TRUE>>,
      <<"latin small letter a with breve", <<"a">>, TRUE>>,
      <<"latin capital letter a with ogonek", <<"A">>, TRUE>>,
      <<"latin small letter a with ogonek", <<"a">>, TRUE>>,
      <<"latin capital letter c with acute", <<"C">>, TRUE>>,
      <<"latin small letter c with acute", <<"c">>, TRUE>>,
      <<"latin capital letter c with circumflex", <<"C">>, TRUE>>,
      <<"latin small letter c with circumflex", <<"c">>, TRUE>>,
      <<"latin capital letter c with dot above", <<"C">>, TRUE>>,
      <<"latin small letter c with dot above", <<"c">>, TRUE>>,
      <<"latin capital letter c with caron", <<"C">>, TRUE>>,
      <<"latin small letter c with caron", <<"c">>, TRUE>>,
      <<"latin capital letter d with caron", <<"D">>, TRUE>>,
      <<"latin small letter d with caron", <<"d">>, TRUE>>,
      <<"latin capital letter d with stroke", <<>>, TRUE>>,
      <<"latin small letter d with stroke", <<>>, TRUE>>,
      <<"latin capital letter e with macron", <<"E">>, TRUE>>,
      <<"latin small letter e with macron", <<"e">>, TRUE>>,
      <<"latin capital letter e with breve", <<"E">>, TRUE>>,
      <<"latin small letter e with breve", <<"e">>, TRUE>>,
      <<"latin capital letter e with dot above", <<"E">>, TRUE>>,
      <<"latin small letter e with dot above", <<"e">>, TRUE>>,
      <<"latin capital letter e with ogonek", <<"E">>, TRUE>>,
      <<"latin small letter e with ogonek", <<"e">>, TRUE>>,
      <<"latin capital letter e with caron", <<"E">>, TRUE>>,
      <<"latin small letter e with caron", <<"e">>, TRUE>>,
      <<"latin capital letter g with circumflex", <<"G">>, TRUE>>,
      <<"latin small letter g with circumflex", <<"g">>, TRUE>>,
      <<"latin capital letter g with breve", <<"G">>, TRUE>>,
      <<"latin small letter g with breve", <<"g">>, TRUE>>,
      <<"latin capital letter g with dot above", <<"G">>, TRUE>>,
      <<"latin small letter g with dot above", <<"g">>, TRUE>>,
      <<"latin capital letter g with cedilla", <<"G">>, TRUE>>,
      <<"latin small letter g with cedilla", <<"g">>, TRUE>>,
      <<"latin capital letter h with circumflex", <<"H">>, TRUE>>,
      <<"latin small letter h with circumflex", <<"h">>, TRUE>>,
      <<"latin capital letter h with stroke", <<>>, TRUE>>,
      <<"latin small letter h with stroke", <<>>, TRUE>>,
      <<"latin capital letter i with tilde", <<"I">>, TRUE>>,
      <<"latin small letter i with tilde", <<"i">>, TRUE>>,
      <<"latin capital letter i with macron", <<"I">>, TRUE>>,
      <<"latin small letter i with macron", <<"i">>, TRUE>>,
      <<"latin capital letter i with breve", <<"I">>, TRUE>>,
      <<"latin small letter i with breve", <<"i">>, TRUE>>,
      <<"latin capital letter i with ogonek", <<"I">>, TRUE>>,
      <<"latin small letter i with ogonek", <<"i">>, TRUE>>,
      <<"latin capital letter i with dot above", <<"I">>, TRUE>>,
      <<"latin small letter dotless i", <<>>, TRUE>>,
      <<"latin capital ligature ij", <<"I", "J">>, TRUE>>,
      <<"latin small ligature ij", <<"i", "j">>, TRUE>>,
      <<"latin capital letter j with circumflex", <<"J">>, TRUE>>,
      <<"latin small letter j with circumflex", <<"j">>, TRUE>>,
      <<"latin capital letter k with cedilla", <<"K">>, TRUE>>,
      <<"latin small letter k with cedilla", <<"k">>, TRUE>>,
      <<"latin small letter kra", <<>>, TRUE>>,
      <<"latin capital letter l with acute", <<"L">>, TRUE>>,
      <<"latin small letter l with acute", <<"l">>, TRUE>>,
      <<"latin capital letter l with cedilla", <<"L">>, TRUE>>,
      <<"latin small letter l with cedilla", <<"l">>, TRUE>>,
      <<"latin capital letter l with caron", <<"L">>, TRUE>>,
      <<"latin small letter l with caron", <<"l">>, TRUE>>,
      <<"latin capital letter l with middle dot", <<"L">>, TRUE>>,
      <<"latin small letter l with middle dot", <<"l">>, TRUE>>,
      <<"latin capital letter l with stroke", <<>>, TRUE>>,
      <<"latin small letter l with stroke", <<>>, TRUE>>,
      <<"latin capital letter n with acute", <<"N">>, TRUE>>,
      <<"latin small letter n with acute", <<"n">>, TRUE>>,
      <<"latin capital letter n with cedilla", <<"N">>, TRUE>>,
      <<"latin small letter n with cedilla", <<"n">>, TRUE>>,
      <<"latin capital letter n with caron", <<"N">>, TRUE>>,
      <<"latin small letter n with caron", <<"n">>, TRUE>>,
      <<"latin small letter n preceded by apostrophe", <<"n">>, TRUE>>,
      <<"latin capital letter eng", <<>>, TRUE>>,
      <<"latin small letter eng", <<>>, TRUE>>,
      <<"latin capital letter o with macron", <<"O">>, TRUE>>,
      <<"latin small letter o with macron", <<"o">>, TRUE>>,
      <<"latin capital letter o with breve", <<"O">>, TRUE>>,
      <<"latin small letter o with breve", <<"o">>, TRUE>>,
      <<"latin capital letter o with double acute", <<"O">>, TRUE>>,
      <<"latin small letter o with double acute", <<"o">>, TRUE>>,
      <<"latin capital ligature oe", <<>>, TRUE>>,
      <<"latin small ligature oe", <<>>, TRUE>>,
      <<"latin capital letter r with acute", <<"R">>, TRUE>>,
      <<"latin small letter r with acute", <<"r">>, TRUE>>,
      <<"latin capital letter r with cedilla", <<"R">>, TRUE>>,
      <<"latin small letter r with cedilla", <<"r">>, TRUE>>,
      <<"latin capital letter r with caron", <<"R">>, TRUE>>,
      <<"latin small letter r with caron", <<"r">>, TRUE>>,
      <<"latin capital letter s with acute", <<"S">>, TRUE>>,
      <<"latin small letter s with acute", <<"s">>, TRUE>>,
      <<"latin capital letter s with circumflex", <<"S">>, TRUE>>,
      <<"latin small letter s with circumflex", <<"s">>, TRUE>>,
      <<"latin capital letter s with cedilla", <<"S">>, TRUE>>,
      <<"latin small letter s with cedilla", <<"s">>, TRUE>>,
      <<"latin capital letter s with caron", <<"S">>, TRUE>>,
      <<"latin small letter s with caron", <<"s">>, TRUE>>,
      <<"latin capital letter t with cedilla", <<"T">>, TRUE>>,
      <<"latin small letter t with cedilla", <<"t">>, TRUE>>,
      <<"latin capital letter t with caron", <<"T">>, TRUE>>,
      <<"latin small letter t with caron", <<"t">>, TRUE>>,
      <<"latin capital letter t with stroke", <<>>, TRUE>>,
      <<"latin small letter t with stroke", <<>>, TRUE>>,
      <<"latin capital letter u with tilde", <<"U">>, TRUE>>,
      <<"latin small letter u with tilde", <<"u">>, TRUE>>,
      <<"latin capital letter u with macron", <<"U">>, TRUE>>,
      <<"latin small letter u with macron", <<"u">>, TRUE>>,
      <<"latin capital letter u with breve", <<"U">>, TRUE>>,
      <<"latin small letter u with breve", <<"u">>, TRUE>>,
      <<"latin capital letter u with ring above", <<"U">>, TRUE>>,
      <<"latin small letter u with ring above", <<"u">>, TRUE>>,
      <<"latin capital letter u with double acute", <<"U">>, TRUE>>,
      <<"latin small letter u with double acute", <<"u">>, TRUE>>,
      <<"latin capital letter u with ogonek", <<"U">>, TRUE>>,
      <<"latin small letter u with ogonek", <<"u">>, TRUE>>,
      <<"latin capital letter w with circumflex", <<"W">>, TRUE>>,
      <<"latin small letter w with circumflex", <<"w">>, TRUE>>,
      <<"latin capital letter y with circumflex", <<"Y">>, TRUE>>,
      <<"latin small letter y with circumflex", <<"y">>, TRUE>>,
      <<"latin capital letter y with diaeresis", <<"Y">>, TRUE>>,
      <<"latin capital letter z with acute", <<"Z">>, TRUE>>,
      <<"latin small letter z with acute", <<"z">>, TRUE>>,
      <<"latin capital letter z with dot above", <<"Z">>, TRUE>>,
      <<"latin small letter z with dot above", <<"z">>, TRUE>>,
      <<"latin capital letter z with caron", <<"Z">>, TRUE>>,
      <<"latin small letter z with caron", <<"z">>, TRUE>>,
      <<"latin small letter long s", <<"s">>, TRUE>>,
      <<"latin capital letter o with horn", <<"O">>, TRUE>>,
      <<"latin small letter o with horn", <<"o">>, TRUE>>,
      <<"latin capital letter u with horn", <<"U">>, TRUE>>,
      <<"latin small letter u with horn", <<"u">>, TRUE>>,
      <<"combining grave accent", <<>>, FALSE>>,
      <<"combining acute accent", <<>>, FALSE>>,
      <<"greek small letter alpha", <<>>, TRUE>>,
      <<"cyrillic small letter a", <<>>, TRUE>>,
      <<"ogham space", <<>>, FALSE>>,
      <<"latin capital letter a with dot below", <<"A">>, TRUE>>,
      <<"latin small letter a with dot below", <<"a">>, TRUE>>,
      <<"latin capital letter a with hook above", <<"A">>, TRUE>>,
      <<"latin small letter a with hook above", <<"a">>, TRUE>>,
      <<"latin capital letter a with circumflex and acute", <<"A">>, TRUE>>,
      <<"latin small letter a with circumflex and acute", <<"a">>, TRUE>>,
      <<"latin capital letter a with circumflex and grave", <<"A">>, TRUE>>,
      <<"latin small letter a with circumflex and grave", <<"a">>, TRUE>>,
      <<"latin capital letter a with circumflex and hook above", <<"A">>, TRUE>>,
      <<"latin small letter a with circumflex and hook above", <<"a">>, TRUE>>,
      <<"latin capital letter a with circumflex and tilde", <<"A">>, TRUE>>,
      <<"latin small letter a with circumflex and tilde", <<"a">>, TRUE>>,
      <<"latin capital letter a with circumflex and dot below", <<"A">>, TRUE>>,
      <<"latin small letter a with circumflex and dot below", <<"a">>, TRUE>>,
      <<"latin capital letter a with breve and acute", <<"A">>, TRUE>>,
      <<"latin small letter a with breve and acute", <<"a">>, TRUE>>,
      <<"latin capital letter a with breve and grave", <<"A">>, TRUE>>,
      <<"latin small letter a with breve and grave", <<"a">>, TRUE>>,
      <<"latin capital letter a with breve and hook above", <<"A">>, TRUE>>,
      <<"latin small letter a with breve and hook above", <<"a">>, TRUE>>,
      <<"latin capital letter a with breve and tilde", <<"A">>, TRUE>>,
      <<"latin small letter a with breve and tilde", <<"a">>, TRUE>>,
      <<"latin capital letter a with breve and dot below", <<"A">>, TRUE>>,
      <<"latin small letter a with breve and dot below", <<"a">>, TRUE>>,
      <<"latin capital letter e with dot below", <<"E">>, TRUE>>,
      <<"latin small letter e with dot below", <<"e">>, TRUE>>,
      <<"latin capital letter e with hook above", <<"E">>, TRUE>>,
      <<"latin small letter e with hook above", <<"e">>, TRUE>>,
      <<"latin capital letter e with tilde", <<"E">>, TRUE>>,
      <<"latin small letter e with tilde", <<"e">>, TRUE>>,
      <<"latin capital letter e with circumflex and acute", <<"E">>, TRUE>>,
      <<"latin small letter e with circumflex and acute", <<"e">>, TRUE>>,
      <<"latin capital letter e with circumflex and grave", <<"E">>, TRUE>>,
      <<"latin small letter e with circumflex and grave", <<"e">>, TRUE>>,
      <<"latin capital letter e with circumflex and hook above", <<"E">>, TRUE>>,
      <<"latin small letter e with circumflex and hook above", <<"e">>, TRUE>>,
      <<"latin capital letter e with circumflex and tilde", <<"E">>, TRUE>>,
      <<"latin small letter e with circumflex and tilde", <<"e">>, TRUE>>,
      <<"latin capital letter e with circumflex and dot below", <<"E">>, TRUE>>,
      <<"latin small letter e with circumflex and dot below", <<"e">>, TRUE>>,
      <<"latin capital letter i with hook above", <<"I">>, TRUE>>,
      <<"latin small letter i with hook above", <<"i">>, TRUE>>,
      <<"latin capital letter i with dot below", <<"I">>, TRUE>>,
      <<"latin small letter i with dot below", <<"i">>, TRUE>>,
      <<"latin capital letter o with dot below", <<"O">>, TRUE>>,
      <<"latin small letter o with dot below", <<"o">>, TRUE>>,
      <<"latin capital letter o with hook above", <<"O">>, TRUE>>,
      <<"latin small letter o with hook above", <<"o">>, TRUE>>,
      <<"latin capital letter o with circumflex and acute", <<"O">>, TRUE>>,
      <<"latin small letter o with circumflex and acute", <<"o">>, TRUE>>,
      <<"latin capital letter o with circumflex and grave", <<"O">>, TRUE>>,
      <<"latin small letter o with circumflex and grave", <<"o">>, TRUE>>,
      <<"latin capital letter o with circumflex and hook above", <<"O">>, TRUE>>,
      <<"latin small letter o with circumflex and hook above", <<"o">>, TRUE>>,
      <<"latin capital letter o with circumflex and tilde", <<"O">>, TRUE>>,
      <<"latin small letter o with circumflex and tilde", <<"o">>, TRUE>>,
      <<"latin capital letter o with circumflex and dot below", <<"O">>, TRUE>>,
      <<"latin small letter o with circumflex and dot below", <<"o">>, TRUE>>,
      <<"latin capital letter o with horn and acute", <<"O">>, TRUE>>,
      <<"latin small letter o with horn and acute", <<"o">>, TRUE>>,
      <<"latin capital letter o with horn and grave", <<"O">>, TRUE>>,
      <<"latin small letter o with horn and grave", <<"o">>, TRUE>>,
      <<"latin capital letter o with horn and hook above", <<"O">>, TRUE>>,
      <<"latin small letter o with horn and hook above", <<"o">>, TRUE>>,
      <<"latin capital letter o with horn and tilde", <<"O">>, TRUE>>,
      <<"latin small letter o with horn and tilde", <<"o">>, TRUE>>,
      <<"latin capital letter o with horn and dot below", <<"O">>, TRUE>>,
      <<"latin small letter o with horn and dot below", <<"o">>, TRUE>>,
      <<"latin capital letter u with dot below", <<"U">>, TRUE>>,
      <<"latin small letter u with dot below", <<"u">>, TRUE>>,
      <<"latin capital letter u with hook above", <<"U">>, TRUE>>,
      <<"latin small letter u with hook above", <<"u">>, TRUE>>,
      <<"latin capital letter u with horn and acute", <<"U">>, TRUE>>,
      <<"latin small letter u with horn and acute", <<"u">>, TRUE>>,
      <<"latin capital letter u with horn and grave", <<"U">>, TRUE>>,
      <<"latin small letter u with horn and grave", <<"u">>, TRUE>>,
      <<"latin capital letter u with horn and hook above", <<"U">>, TRUE>>,
      <<"latin small letter u with horn and hook above", <<"u">>, TRUE>>,
      <<"latin capital letter u with horn and tilde", <<"U">>, TRUE>>,
      <<"latin small letter u with horn and tilde", <<"u">>, TRUE>>,
      <<"latin capital letter u with horn and dot below", <<"U">>, TRUE>>,
      <<"latin small letter u with horn and dot below", <<"u">>, TRUE>>,
      <<"latin capital letter y with grave", <<"Y">>, TRUE>>,
      <<"latin small letter y with grave", <<"y">>, TRUE>>,
      <<"latin capital letter y with dot below", <<"Y">>, TRUE>>,
      <<"latin small letter y with dot below", <<"y">>, TRUE>>,
      <<"latin capital letter y with hook above", <<"Y">>, TRUE>>,
      <<"latin small letter y with hook above", <<"y">>, TRUE>>,
      <<"latin capital letter y with tilde", <<"Y">>, TRUE>>,
      <<"latin small letter y with tilde", <<"y">>, TRUE>>,
      <<"en quad", <<" ">>, FALSE>>,
      <<"em quad", <<" ">>, FALSE>>,
      <<"en space", <<" ">>, FALSE>>,
      <<"em space", <<" ">>, FALSE>>,
      <<"three-per-em space", <<" ">>, FALSE>>,
      <<"four-per-em space", <<" ">>, FALSE>>,
      <<"six-per-em space", <<" ">>, FALSE>>,
      <<"figure space", <<" ">>, FALSE>>,
      <<"punctuation space", <<" ">>, FALSE>>,
      <<"thin space", <<" ">>, FALSE>>,
      <<"hair space", <<" ">>, FALSE>>,
      <<"zero width space", <<>>, FALSE>>,
      <<"em dash", <<>>, FALSE>>,
      <<"horizontal ellipsis", <<".", ".", ".">>, FALSE>>,
      <<"line separator", <<>>, FALSE>>,
      <<"paragraph separator", <<>>, FALSE>>,
      <<"narrow nbsp", <<" ">>, FALSE>>,
      <<"medium mathematical space", <<" ">>, FALSE>>,
      <<"superscript four", <<"4">>, TRUE>>,
      <<"euro sign", <<>>, FALSE>>,
      <<"numero sign", <<"N", "o">>, FALSE>>,
      <<"trade mark sign", <<"T", "M">>, FALSE>>,
      <<"kelvin sign", <<"K">>, TRUE>>,
      <<"angstrom sign", <<"A">>, TRUE>>,
      <<"roman numeral four", <<"I", "V">>, TRUE>>,
      <<"circled latin small letter a", <<"a">>, FALSE>>,
      <<"ideographic space", <<" ">>, FALSE>>,
      <<"hiragana letter a", <<>>, TRUE>>,
      <<"cjk unified ideograph-4e2d", <<>>, TRUE>>,
      <<"latin small ligature fi", <<"f", "i">>, TRUE>>,
      <<"fullwidth latin capital letter a", <<"A">>, TRUE>>
    }

\* The decimal digits whose compatibility decomposition is an ASCII digit.
CompatibilityDigits ==
    {ScriptDigit(script, v) :
        script \in {"fullwidth", "mathematical bold",
                    "mathematical double-struck", "mathematical sans-serif",
                    "mathematical sans-serif bold", "mathematical monospace",
                    "segmented"},
        v \in 0..9}

\* c.isalnum()
Alnum ==
    ASCIILower \cup ASCIIUpper \cup Digits
        \cup {t[1] : t \in {u \in Characters : u[3]}}

\* The ASCII part of the decomposition of each character of Characters.
Decomposition ==
    [c \in {t[1] : t \in Characters} |->
        (CHOOSE t \in Characters : t[1] = c)[2]] @@ << >>

\* unicodedata.normalize("NFKD", c).encode("ascii", "ignore").decode("utf-8")
\* of one character: an ASCII character is kept, an accented letter keeps
\* its base letter, a compatibility character its ASCII equivalent, and what
\* is left outside ASCII is dropped.
ToASCII(c) ==
    IF c \in ASCII THEN <<c>>
    ELSE IF c \in CompatibilityDigits
    THEN <<DecimalDigits[DigitValue(c) + 1]>>
    ELSE IF c \in Digits THEN << >>
    ELSE Decomposition[c]

RECURSIVE NormalizeLower(_)
NormalizeLower(name) ==
    IF Len(name) = 0 THEN << >>
    ELSE [k \in 1..Len(ToASCII(Head(name))) |-> lower(ToASCII(Head(name))[k])]
             \o NormalizeLower(Tail(name))

\* name from its first character in [a-z0-9] on.
RECURSIVE SkipOthers(_)
SkipOthers(name) ==
    IF Len(name) > 0 /\ Head(name) \notin ASCIILower
    THEN SkipOthers(Tail(name)) ELSE name

\* re.sub(r"[^a-z0-9]+", "_", name)
RECURSIVE SubOthers(_)
SubOthers(name) ==
    IF Len(name) = 0 THEN << >>
    ELSE IF Head(name) \in ASCIILower
    THEN <<Head(name)>> \o SubOthers(Tail(name))
    ELSE <<"_">> \o SubOthers(SkipOthers(name))

\* name.strip("_")
RECURSIVE StripUnderscores(_)
StripUnderscores(name) ==
    IF Len(name) > 0 /\ Head(name) = "_" THEN StripUnderscores(Tail(name))
    ELSE IF Len(name) > 0 /\ name[Len(name)] = "_"
    THEN StripUnderscores(SubSeq(name, 1, Len(name) - 1))
    ELSE name

PlayerUnknown ==
    <<"p", "l", "a", "y", "e", "r", "_", "u", "n", "k", "n", "o", "w", "n">>

sanitize_filename(name) ==
    IF \A k \in 1..Len(name) : name[k] \notin Alnum THEN PlayerUnknown
    ELSE IF StripUnderscores(SubOthers(NormalizeLower(name))) = << >>
    THEN PlayerUnknown
    ELSE StripUnderscores(SubOthers(NormalizeLower(name)))

\* sanitized_names.count(name) over the first n entries.
CountIn(names, name, n) == Cardinality({k \in 1..n : names[k] = name})

\* final_filenames: a name that occurs more than once gets "_<n>" for its
\* n-th occurrence, a name that occurs once is kept.
FinalFilenames(sanitized_names) ==
    [k \in 1..Len(sanitized_names) |->
        IF CountIn(sanitized_names, sanitized_names[k], Len(sanitized_names)) > 1
        THEN sanitized_names[k] \o <<"_">>
                 \o str(CountIn(sanitized_names, sanitized_names[k], k))
        ELSE sanitized_names[k]]

\* output_files: f"{filename}.mp4" for each player, in order.
OutputFiles(raw_names) ==
    [k \in 1..Len(raw_names) |->
        FinalFilenames([j \in 1..Len(raw_names) |->
                           sanitize_filename(raw_names[j])])[k]
            \o <<".", "m", "p", "4">>]

\* The player names of a tracking record.
FilenameMaxPlayers == 3

RawNames ==
    { <<"a">>, <<"A">>, <<"b">>, <<"a", " ", "1">>, <<"a", "_", "1">>,
      <<"a", "_", "2">>, <<"!", "!">>, <<"latin small letter a with grave">>,
      <<"cjk unified ideograph-4e2d">>, <<"trade mark sign">>,
      <<"a", "nel", "b">> }

RawNameLists ==
    UNION {[1..n -> RawNames] : n \in 1..FilenameMaxPlayers}

InitFilenames ==
    /\ \E raw_names \in RawNameLists :
           function_call =
               [NoFunctionCall EXCEPT !.arguments = [raw_names |-> raw_names]]
    /\ TrackerIdle
    /\ selector = NoSelector
    /\ crop_call = NoCropCall
    /\ named_cropper = NoNamedCropper
    /\ pipeline = NoPipeline

\* crop_named_player_videos up to the opening of the writers: one output
\* file per player.
OpenWriters ==
    /\ function_call.function = "none"
    /\ function_call' =
         [function_call EXCEPT
            !.function = "crop_named_player_videos",
            !.result = OutputFiles(function_call.arguments.raw_names)]
    /\ UNCHANGED <<tracker_vars, selector, crop_call, named_cropper, pipeline>>

NextFilenames == OpenWriters

SpecFilenames == InitFilenames /\ [][NextFilenames]_vars

\* C39: the output files of the players of one tracking record are pairwise
\* distinct, whatever the players' names are.
C39_OutputFilesDistinct ==
    function_call.function = "crop_named_player_videos" =>
        \A i, j \in 1..Len(function_call.result) :
            i # j => function_call.result[i] # function_call.result[j]

=============================================================================
